---- MODULE Spec2Model ----
(***************************************************************************)
(* react-native-p2p-secure: the SRP coordinator (CoordinatorServer and     *)
(* SRPServer), the mesh bootstrap and messaging (ServerNode, ClientNode,   *)
(* Node), the TLS dialer (TLSClient), port selection (getTCPOpenPort,      *)
(* P2PSession.create), the node's life cycle and the joining client        *)
(* (CoordinatorClient).                                                    *)
(*                                                                         *)
(* Spec          the coordinator's message handler under arbitrary inputs. *)
(* AuditSpec     Spec with the history of refused proofs.                  *)
(* MeshSpec      the hello / ack-hello bootstrap, started from rosters     *)
(*               that the coordinator produces.                            *)
(* MeshFairSpec  MeshSpec with every enabled delivery eventually made.     *)
(* MsgSpec       encrypted messages between the members of a mesh.         *)
(* CertSpec      one TLS dial and the check of the server certificate.     *)
(* PortSpec      the three port searches of a session and its listeners.   *)
(* LifeSpec      breaks, heartbeats, reconnection and destruction of a     *)
(*               node.                                                     *)
(* LifeFairSpec  LifeSpec with the node's own steps eventually taken.      *)
(* JoinSpec      a client's two-round handshake with the coordinator.      *)
(* JoinFairSpec  JoinSpec with every sent message eventually handled.      *)
(* HostSpec      MeshSpec with a late joiner talking to the coordinator.   *)
(* DropSpec      MeshSpec with messages forged by a stranger.              *)
(* BeatSpec      the keep-alive heartbeats and timers of one TLS channel.  *)
(* FacadeSpec    Spec seen through the events of the Host facade.          *)
(* ReplySpec     the joining client's handler under arbitrary replies.     *)
(* StartSpec     the host's node from ServerNode.start, hello queued.      *)
(* RebuildSpec   reconnection while the listener's port may be taken.      *)
(* RebuildFairSpec  RebuildSpec with the node's own steps eventually taken.*)
(***************************************************************************)
EXTENDS Integers, Sequences, FiniteSets, TLC

(***************************************************************************)
(* Bounds of the model.                                                    *)
(***************************************************************************)
MaxRetryCount == 3
MaxAuthenticated == 2
MaxFailedProofs == 3
MaxSessionStarted == 2
MaxSent == 2
MaxCNLen == 5
\* The port range 49152..65535 of getTCPOpenPort is scaled to minPort..maxPort,
\* and the discovery default 5330, below the range, to defaultDiscoveryPort.
minPort == 3
maxPort == 5
defaultDiscoveryPort == 1
MaxDestroyCalls == 2
MaxHeartbeatTimeouts == 1
MaxBreaks == 1
MaxPeerDials == 1
MaxSends == 1
MaxChallenges == 10
MaxReplies == 3

(***************************************************************************)
(* Program constants.                                                      *)
(***************************************************************************)
maxSRPRetrys == 3

Users == {"u1", "u2"}
IPs == {"ip1", "ip2"}
Ports == {50001}
sessionName == "host"
HostIP == "ip0"
hostNodePort == 50000
sessionPasscode == "123456"
Passwords == {"123456", "654321"}

\* Error texts of CoordinatorServer.handleClientMessage.
ErrAlreadyRegistered == "already registered in session"
ErrNotRegistered == "Something went wrong. Please try joining again."
ErrIPMismatch == "Username does not match initial IP Address. Please restart and try again."
ErrOutOfOrder == "Out of order message received. Please try joining again."
ErrTooMany == "Too many failed authentication attempts for this IP! Please restart and try again."
ErrUnableToVerify == "Unable to verify client. Please try joining again."
NoError == "null"

(***************************************************************************)
(* SRP, abstracted.  A round 1 creates a fresh server ephemeral for the    *)
(* user; the client proof of a round 2 is bound to the password the client *)
(* used and to the ephemeral of the round 1 it answers.  The session key   *)
(* is a function of the user and of the exchange.                          *)
(***************************************************************************)
Ephemerals == 1..(MaxRetryCount + 1)
Proofs == [pw : Passwords, eph : Ephemerals]
SessionKey(username, eph) == [u |-> username, e |-> eph]
NullSession == [u |-> "null", e |-> 0]
UndefinedKey == [u |-> "undefined", e |-> 0]

VARIABLES
    clients,                \* CoordinatorServer.clients
    userDB,                 \* SRPServer.userDB
    authenticatedClients,   \* CoordinatorServer.authenticatedClients
    reply,                  \* the last message prepared on a coordinator connection
    event,                  \* the last event the coordinator emitted
    failedProofs,           \* history: per source IP, the proofs that failed verification
    node,                   \* the mesh node of each member
    wire,                   \* per dialer <<member, neighbor>>: the node messages written
                            \* to its TLS channel and not yet handled by the peer, in order
    emitted,                \* node events: session-started emissions per member
    inbox,                  \* node events: the 'message' events of each member, in order
    outbox,                 \* history: per <<member, neighbor>>, the texts given to sendMessage
    tlsDial,                \* a TLSClient dialing a listener: expected name, port, peer CN, state
    occupied,               \* the TCP ports other processes of the device listen on
    portCall,               \* the running call of getTCPOpenPort
    creation,               \* P2PSession.create and the servers started on its ports
    peers,                  \* one Node's neighbors: the reconnection flags and the dialer
    controller,             \* that Node: listener, reconnect() and destroy() in progress
    network,                \* the TCP path to each neighbor
    heard,                  \* the events the Node emitted for each neighbor
    join                    \* a client's CoordinatorClient.start in progress

coordVars == <<clients, userDB, authenticatedClients, reply, event, failedProofs>>
msgVars == <<inbox, outbox>>
meshVars == <<node, wire, emitted, inbox, outbox>>
dialVars == <<tlsDial>>
portVars == <<occupied, portCall, creation>>
lifeVars == <<peers, controller, network, heard>>
joinVars == <<join>>
otherVars == <<dialVars, portVars, lifeVars, joinVars>>
nonDialVars == <<coordVars, meshVars, portVars, lifeVars, joinVars>>
nonPortVars == <<coordVars, meshVars, dialVars, lifeVars, joinVars>>
nonLifeVars == <<coordVars, meshVars, dialVars, portVars, joinVars>>
nonJoinVars == <<meshVars, dialVars, portVars, lifeVars>>
nonMeshVars == <<coordVars, otherVars>>
nonCoordVars == <<meshVars, otherVars>>
vars == <<clients, userDB, authenticatedClients, reply, event, failedProofs,
          node, wire, emitted, inbox, outbox, tlsDial, occupied, portCall, creation,
          peers, controller, network, heard, join>>

NoReply == [type |-> "none", status |-> "none", error |-> NoError]
NoEvent == [name |-> "none", user |-> "none"]
NoDial == [state |-> "none"]
NoCall == [phase |-> "none"]
NoCreation == [pc |-> "none"]
dialIdle == tlsDial = NoDial
portsIdle == occupied = {} /\ portCall = NoCall /\ creation = NoCreation
NoController == [created |-> FALSE, destroyCalls |-> 0]
NoJoin == [pc |-> "none"]
joinIdle == join = NoJoin
NoNetwork == [up |-> <<>>]
lifeIdle == peers = <<>> /\ controller = NoController /\ network = NoNetwork /\ heard = <<>>

Reply(t, s, e) == [type |-> t, status |-> s, error |-> e]
Event(n, u) == [name |-> n, user |-> u]

(***************************************************************************)
(* SRPServer                                                               *)
(***************************************************************************)
\* registerAndLogin: a new record with a fresh ephemeral and no session.
registerAndLogin(db, username) ==
    LET eph == IF username \in DOMAIN db THEN db[username].eph + 1 ELSE 1
        rec == [eph |-> eph, serverSession |-> NullSession]
    IN  [x \in (DOMAIN db) \cup {username} |-> IF x = username THEN rec ELSE db[x]]

\* Mutant: the proof is accepted whatever password it was made with.
proofVerifies_AnyPassword(db, username, clientProof) ==
    /\ username \in DOMAIN db
    /\ clientProof.eph = db[username].eph

\* srp.deriveSession throws unless the client proof matches the exchange.
proofVerifies(db, username, clientProof) ==
    /\ username \in DOMAIN db
    /\ clientProof.pw = sessionPasscode
    /\ clientProof.eph = db[username].eph

\* Mutant: the session of a verified proof is not stored.
deriveKeyAndVerifyClient_NoSession(db, username, clientProof) ==
    db

\* deriveKeyAndVerifyClient: stores the session when the proof verifies.
deriveKeyAndVerifyClient(db, username, clientProof) ==
    IF proofVerifies(db, username, clientProof)
    THEN [db EXCEPT ![username].serverSession = SessionKey(username, db[username].eph)]
    ELSE db

\* getSessionKey / exportUsers: serverSession?.key
getSessionKey(db, username) ==
    IF db[username].serverSession = NullSession THEN UndefinedKey
    ELSE db[username].serverSession

(***************************************************************************)
(* CoordinatorServer                                                       *)
(***************************************************************************)
RECURSIVE SumRetry(_, _)
SumRetry(cl, S) ==
    IF S = {} THEN 0
    ELSE LET x == CHOOSE y \in S : TRUE
         IN  cl[x].retryCount + SumRetry(cl, S \ {x})

\* Object.values(clients).filter(ip === remoteAddress).reduce(acc + retryCount)
retryCountForIP(cl, ip) ==
    SumRetry(cl, {x \in DOMAIN cl : cl[x].ip = ip})

\* Mutant: the collision test compares nothing.
usernameTaken_Never(cl, username, ip) ==
    FALSE

\* The username collision test of srp-handshake_1.
usernameTaken(cl, username, ip) ==
    username \in DOMAIN cl /\ ip # cl[username].ip

\* Mutant: a repeated registration starts the count again.
registerClient_Reset(cl, username, ip) ==
    [x \in (DOMAIN cl) \cup {username} |->
        IF x = username THEN [retryCount |-> 0, ip |-> ip, registered |-> FALSE]
        ELSE cl[x]]

\* The clients table after an accepted srp-handshake_1.
registerClient(cl, username, ip) ==
    IF username \notin DOMAIN cl
    THEN [x \in (DOMAIN cl) \cup {username} |->
            IF x = username THEN [retryCount |-> 0, ip |-> ip, registered |-> FALSE]
            ELSE cl[x]]
    ELSE [cl EXCEPT ![username].retryCount = @ + 1]

Handshake1(ip, username) ==
    /\ (username \in DOMAIN clients /\ ~usernameTaken(clients, username, ip))
          => clients[username].retryCount < MaxRetryCount
    /\ IF usernameTaken(clients, username, ip)
       THEN /\ reply' = Reply("srp-handshake_1", "error", ErrAlreadyRegistered)
            /\ UNCHANGED <<clients, userDB, authenticatedClients, event>>
       ELSE /\ clients' = registerClient(clients, username, ip)
            /\ event' = Event("connection-attempt", username)
            /\ userDB' = registerAndLogin(userDB, username)
            /\ reply' = Reply("srp-handshake_1", "success", NoError)
            /\ UNCHANGED authenticatedClients

\* Mutant: the handler without the comparison of the pinned address.
handshake2Outcome_NoIPCheck(cl, db, ip, username, sessionProof) ==
    IF username \notin DOMAIN db THEN ErrNotRegistered
    ELSE IF retryCountForIP(cl, ip) >= maxSRPRetrys THEN ErrTooMany
    ELSE IF ~proofVerifies(db, username, sessionProof) THEN ErrUnableToVerify
    ELSE NoError

\* Mutant: the retries of every address are summed.
handshake2Outcome_AllAddresses(cl, db, ip, username, sessionProof) ==
    IF username \notin DOMAIN db THEN ErrNotRegistered
    ELSE IF cl[username].ip # ip THEN ErrIPMismatch
    ELSE IF username \notin DOMAIN cl THEN ErrOutOfOrder
    ELSE IF SumRetry(cl, DOMAIN cl) >= maxSRPRetrys THEN ErrTooMany
    ELSE IF ~proofVerifies(db, username, sessionProof) THEN ErrUnableToVerify
    ELSE NoError

\* Which branch of the srp-handshake_2 handler a message takes.
handshake2Outcome(cl, db, ip, username, sessionProof) ==
    IF username \notin DOMAIN db THEN ErrNotRegistered
    ELSE IF cl[username].ip # ip THEN ErrIPMismatch
    ELSE IF username \notin DOMAIN cl THEN ErrOutOfOrder
    ELSE IF retryCountForIP(cl, ip) >= maxSRPRetrys THEN ErrTooMany
    ELSE IF ~proofVerifies(db, username, sessionProof) THEN ErrUnableToVerify
    ELSE NoError

Handshake2(ip, username, sessionProof, nodePort) ==
    LET outcome == handshake2Outcome(clients, userDB, ip, username, sessionProof)
    IN
    /\ outcome = NoError => Len(authenticatedClients) < MaxAuthenticated
    /\ IF outcome = NoError
       THEN /\ userDB' = deriveKeyAndVerifyClient(userDB, username, sessionProof)
            /\ authenticatedClients' = Append(authenticatedClients,
                    [userName |-> username, ip |-> ip, port |-> nodePort])
            /\ clients' = [clients EXCEPT ![username].registered = TRUE]
            /\ event' = Event("connected", username)
            /\ reply' = Reply("srp-handshake_2", "success", NoError)
       ELSE /\ reply' = Reply("srp-handshake_2", "error", outcome)
            /\ event' = Event("connection-attempt-fail", username)
            /\ UNCHANGED <<clients, userDB, authenticatedClients>>

\* tlsServer 'connection-closed': every record with the address is removed.
ConnectionClosed(address) ==
    /\ \E i \in 1..Len(authenticatedClients) : authenticatedClients[i].ip = address
    /\ LET first == CHOOSE i \in 1..Len(authenticatedClients) :
                       /\ authenticatedClients[i].ip = address
                       /\ \A j \in 1..(i - 1) : authenticatedClients[j].ip # address
       IN  event' = Event("disconnected", authenticatedClients[first].userName)
    /\ authenticatedClients' = SelectSeq(authenticatedClients, LAMBDA c : c.ip # address)
    /\ UNCHANGED <<clients, userDB, reply>>

\* exportUsers: the authenticated list joined with the SRP users on username.
exportUsers ==
    [i \in 1..Len(authenticatedClients) |->
        LET c == authenticatedClients[i]
        IN  [userName |-> c.userName, ip |-> c.ip, port |-> c.port,
             serverSessionKey |-> IF c.userName \in DOMAIN userDB
                                  THEN getSessionKey(userDB, c.userName)
                                  ELSE NullSession]]

EmptyMap == [x \in {} |-> 0]

Init ==
    /\ clients = EmptyMap
    /\ userDB = EmptyMap
    /\ authenticatedClients = <<>>
    /\ reply = NoReply
    /\ event = NoEvent
    /\ failedProofs = [i \in IPs |-> [count |-> 0, names |-> {}]]
    /\ node = EmptyMap
    /\ wire = [ch \in ({sessionName} \cup Users) \X ({sessionName} \cup Users) |-> <<>>]
    /\ emitted = [m \in {sessionName} \cup Users |-> 0]
    /\ inbox = [m \in {sessionName} \cup Users |-> <<>>]
    /\ outbox = [ch \in ({sessionName} \cup Users) \X ({sessionName} \cup Users) |-> <<>>]
    /\ dialIdle
    /\ portsIdle
    /\ lifeIdle
    /\ joinIdle

Next ==
    \/ \E ip \in IPs, username \in Users :
          Handshake1(ip, username) /\ UNCHANGED <<failedProofs, nonCoordVars>>
    \/ \E ip \in IPs, username \in Users, sessionProof \in Proofs, nodePort \in Ports :
          Handshake2(ip, username, sessionProof, nodePort) /\ UNCHANGED <<failedProofs, nonCoordVars>>
    \/ \E address \in IPs :
          ConnectionClosed(address) /\ UNCHANGED <<failedProofs, nonCoordVars>>

Spec == Init /\ [][Next]_vars

(***************************************************************************)
(* AuditSpec: the coordinator with a history of the 'connection-attempt-   *)
(* fail' events raised by proofs that failed verification (lines 337-343), *)
(* counted per source address, with the usernames they were made under.    *)
(***************************************************************************)
recordFailedProof(fp, ip, username) ==
    [fp EXCEPT ![ip] = [count |-> IF @.count < MaxFailedProofs THEN @.count + 1 ELSE @.count,
                        names |-> @.names \cup {username}]]

AuditHandshake2(ip, username, sessionProof, nodePort) ==
    /\ Handshake2(ip, username, sessionProof, nodePort)
    /\ failedProofs' =
         IF handshake2Outcome(clients, userDB, ip, username, sessionProof) = ErrUnableToVerify
         THEN recordFailedProof(failedProofs, ip, username)
         ELSE failedProofs

AuditNext ==
    \/ \E ip \in IPs, username \in Users :
          Handshake1(ip, username) /\ UNCHANGED <<failedProofs, nonCoordVars>>
    \/ \E ip \in IPs, username \in Users, sessionProof \in Proofs, nodePort \in Ports :
          AuditHandshake2(ip, username, sessionProof, nodePort) /\ UNCHANGED nonCoordVars
    \/ \E address \in IPs :
          ConnectionClosed(address) /\ UNCHANGED <<failedProofs, nonCoordVars>>

AuditSpec == Init /\ [][AuditNext]_vars

(***************************************************************************)
(* FacadeSpec: the coordinator behind the Host facade.  The variable heard *)
(* holds, for the last message or close the coordinator handled, the       *)
(* events the coordinator emitted and the events the facade passed on to   *)
(* its subscribers.                                                        *)
(***************************************************************************)
\* Host constructor: the Coordinator.on(...) calls in the order they are
\* made, each with the facade event its callback emits.
coordinatorListeners ==
    << [on |-> "connection-attempt",      emits |-> "coordinator-connection-start"],
       [on |-> "connection-attempt-fail", emits |-> "coordinator-connection-fail"],
       [on |-> "connected",               emits |-> "coordinator-connected"],
       [on |-> "disconnected",            emits |-> "coordinator-disconnected"],
       [on |-> "reconnected",             emits |-> "coordinator-reconnected"],
       [on |-> "connection-attempt",      emits |-> "coordinator-connection-start"],
       [on |-> "connection-attempt-fail", emits |-> "coordinator-connection-fail"],
       [on |-> "connected",               emits |-> "coordinator-connected"],
       [on |-> "disconnected",            emits |-> "coordinator-disconnected"],
       [on |-> "reconnected",             emits |-> "coordinator-reconnected"] >>

\* EventEmitter.emit: every listener registered for the event runs, in the
\* order of registration; each callback of the Host emits its facade event.
forwarded(ev) ==
    LET ls == SelectSeq(coordinatorListeners, LAMBDA l : l.on = ev.name)
    IN  [i \in 1..Len(ls) |-> Event(ls[i].emits, ev.user)]

\* The handler run that emitted ev, seen through the facade.
facadeRun(ev) == [coordinator |-> <<ev>>, facade |-> forwarded(ev)]
noEmission == [coordinator |-> <<>>, facade |-> <<>>]

facadeFrame == UNCHANGED <<failedProofs, meshVars, dialVars, portVars, joinVars,
                           peers, controller, network>>

FacadeHandshake1(ip, username) ==
    /\ Handshake1(ip, username)
    /\ heard' = IF usernameTaken(clients, username, ip) THEN noEmission
                ELSE facadeRun(event')
    /\ facadeFrame

FacadeHandshake2(ip, username, sessionProof, nodePort) ==
    /\ Handshake2(ip, username, sessionProof, nodePort)
    /\ heard' = facadeRun(event')
    /\ facadeFrame

FacadeConnectionClosed(address) ==
    /\ ConnectionClosed(address)
    /\ heard' = facadeRun(event')
    /\ facadeFrame

FacadeInit ==
    /\ clients = EmptyMap
    /\ userDB = EmptyMap
    /\ authenticatedClients = <<>>
    /\ reply = NoReply
    /\ event = NoEvent
    /\ failedProofs = [i \in IPs |-> [count |-> 0, names |-> {}]]
    /\ node = EmptyMap
    /\ wire = [ch \in ({sessionName} \cup Users) \X ({sessionName} \cup Users) |-> <<>>]
    /\ emitted = [m \in {sessionName} \cup Users |-> 0]
    /\ inbox = [m \in {sessionName} \cup Users |-> <<>>]
    /\ outbox = [ch \in ({sessionName} \cup Users) \X ({sessionName} \cup Users) |-> <<>>]
    /\ dialIdle
    /\ portsIdle
    /\ joinIdle
    /\ peers = <<>>
    /\ controller = NoController
    /\ network = NoNetwork
    /\ heard = noEmission

FacadeNext ==
    \/ \E ip \in IPs, username \in Users : FacadeHandshake1(ip, username)
    \/ \E ip \in IPs, username \in Users, sessionProof \in Proofs, nodePort \in Ports :
          FacadeHandshake2(ip, username, sessionProof, nodePort)
    \/ \E address \in IPs : FacadeConnectionClosed(address)

FacadeSpec == FacadeInit /\ [][FacadeNext]_vars

(***************************************************************************)
(* Node, ServerNode, ClientNode: the mesh bootstrap.                        *)
(*                                                                         *)
(* A node is a record: identifier, ip, tcpServerPort, neighbors (a map     *)
(* from user name to the neighbor entry), ackedNeighbors (ServerNode),     *)
(* onceConnection (the ClientNode's once('connection') listener is still   *)
(* installed) and helloHandled (the ClientNode has processed a hello).     *)
(* A neighbor entry holds ip, serverPort, sendKey, receiveKey, the state   *)
(* of its TLSClient (idle, connecting, tcp, connected) and the messages    *)
(* that wait on its connectionPromise.                                     *)
(***************************************************************************)
Members == {sessionName} \cup Users

\* The address each client process runs at.
clientIP == [u \in Users |-> IF u = "u1" THEN "ip1" ELSE "ip2"]

NodeMessage(type, from, fromIP, toIP, toPort, encryptedMessage) ==
    [type |-> type, from |-> from, fromIP |-> fromIP, toIP |-> toIP,
     toPort |-> toPort, encryptedMessage |-> encryptedMessage]

newNeighbor(ip, port, sendKey, receiveKey) ==
    [ip |-> ip, serverPort |-> port, sendKey |-> sendKey, receiveKey |-> receiveKey,
     dialer |-> "idle", queued |-> <<>>]

newNode(identifier, ip, port, isClient) ==
    [identifier |-> identifier, ip |-> ip, tcpServerPort |-> port,
     neighbors |-> EmptyMap, ackedNeighbors |-> {},
     onceConnection |-> isClient, helloHandled |-> FALSE]

\* Node.addNegihbor: the own row is skipped, any other name is set in the map.
addNegihbor(n, info) ==
    IF info.userName = n.identifier /\ info.port = n.tcpServerPort THEN n
    ELSE [n EXCEPT !.neighbors =
            [x \in (DOMAIN n.neighbors) \cup {info.userName} |->
                IF x = info.userName
                THEN newNeighbor(info.ip, info.port, info.sendKey, info.receiveKey)
                ELSE n.neighbors[x]]]

RECURSIVE addNeighbors(_, _)
addNeighbors(n, infos) ==
    IF infos = <<>> THEN n
    ELSE addNeighbors(addNegihbor(n, Head(infos)), Tail(infos))

\* Host.startP2PSession: one NodeInfo per exported user, key = serverSessionKey.
neighborsInfo(users) ==
    [i \in 1..Len(users) |->
        [userName |-> users[i].userName, ip |-> users[i].ip, port |-> users[i].port,
         sendKey |-> users[i].serverSessionKey, receiveKey |-> users[i].serverSessionKey]]

\* Mutant: the constructor loop misses the last neighbor.
ServerNodeNew_DropLast(identifier, port, infos) ==
    addNeighbors(newNode(identifier, HostIP, port, FALSE),
                 SubSeq(infos, 1, Len(infos) - 1))

\* new ServerNode(identifier, port, rsaKeys, neighbors)
ServerNodeNew(identifier, port, infos) ==
    addNeighbors(newNode(identifier, HostIP, port, FALSE), infos)

\* new ClientNode(identifier, port, rsaKeys, neighbor): neighbor is the
\* SRPHandshakeResult {info: host, key}.
ClientNodeNew(identifier, port, hostInfo, key) ==
    addNegihbor(newNode(identifier, clientIP[identifier], port, TRUE),
                [userName |-> hostInfo.userName, ip |-> hostInfo.ip, port |-> hostInfo.port,
                 sendKey |-> key, receiveKey |-> key])

\* ServerNode._generateHelloMessage: one row per neighbor of the host.
generateHelloMessage(n) ==
    {[username |-> x, ip |-> n.neighbors[x].ip, port |-> n.neighbors[x].serverPort,
      sendKey |-> n.neighbors[x].sendKey, receiveKey |-> n.neighbors[x].receiveKey]
        : x \in DOMAIN n.neighbors}

\* forge.util.encode64 / decode64.
encode64(bytes) == <<"base64", bytes>>
decode64(str) == str[2]

\* CryptoUtils.aesEncrypt and aesDecrypt: the padding check of decipher.finish
\* fails under another key.
aesEncrypt(key, data) == [cipherKey |-> key, data |-> data]
aesDecrypt(key, encrypted) ==
    IF key = encrypted.cipherKey
    THEN [status |-> "success", message |-> encrypted.data]
    ELSE [status |-> "error", message |-> "null"]

\* Node.sendMessage: the message a node builds for a neighbor.
messageFor(n, username, type, payload) ==
    NodeMessage(type, n.identifier, n.ip, n.neighbors[username].ip,
                n.neighbors[username].serverPort,
                aesEncrypt(n.neighbors[username].sendKey, encode64(payload)))

\* Node.sendMessage encrypts (which throws on an undefined key) and hands the
\* message to connectionPromise.then(send).
canSend(n, username) ==
    username \in DOMAIN n.neighbors /\ n.neighbors[username].sendKey # UndefinedKey

\* The neighbors of n after sendMessage(payload, username, type) for every
\* username in tos: the message waits on the connectionPromise unless the
\* dialer is connected.
queueMessages(n, tos, type, payload) ==
    [n EXCEPT !.neighbors =
        [x \in DOMAIN n.neighbors |->
            IF x \in tos /\ canSend(n, x) /\ n.neighbors[x].dialer # "connected"
            THEN [n.neighbors[x] EXCEPT !.queued = Append(@, messageFor(n, x, type, payload))]
            ELSE n.neighbors[x]]]

sentAtOnce_Prepend(w, n, tos, type, payload) ==
    [p \in DOMAIN w |->
        IF /\ p[1] = n.identifier
           /\ p[2] \in tos
           /\ canSend(n, p[2])
           /\ n.neighbors[p[2]].dialer = "connected"
        THEN <<messageFor(n, p[2], type, payload)>> \o w[p]
        ELSE w[p]]

\* ... and the channels after the messages whose connectionPromise is
\* already resolved have been written (tlsSocket.send).
sentAtOnce(w, n, tos, type, payload) ==
    [p \in DOMAIN w |->
        IF /\ p[1] = n.identifier
           /\ p[2] \in tos
           /\ canSend(n, p[2])
           /\ n.neighbors[p[2]].dialer = "connected"
        THEN Append(w[p], messageFor(n, p[2], type, payload))
        ELSE w[p]]

\* tlsSocket.connect on every neighbor whose dialer has not been started.
connectAll(n) ==
    [n EXCEPT !.neighbors =
        [x \in DOMAIN n.neighbors |->
            IF n.neighbors[x].dialer = "idle"
            THEN [n.neighbors[x] EXCEPT !.dialer = "connecting"]
            ELSE n.neighbors[x]]]

withNode(m, n) == [x \in (DOMAIN node) \cup {m} |-> IF x = m THEN n ELSE node[x]]

seqToSet(q) == {q[i] : i \in 1..Len(q)}

emitSessionStarted(m) ==
    [emitted EXCEPT ![m] = IF @ < MaxSessionStarted THEN @ + 1 ELSE @]

\* The node that listens at an address.
listenerAt(ip, port) ==
    {m \in DOMAIN node : node[m].ip = ip /\ node[m].tcpServerPort = port}

\* The members of the session: the host and the authenticated clients.
SessionMembers == {sessionName} \cup {exportUsers[i].userName : i \in 1..Len(exportUsers)}

hasNeighbor(a, b) == a \in DOMAIN node /\ b \in DOMAIN node[a].neighbors

\* The host has started the mesh and every client has processed its hello.
Bootstrapped ==
    /\ sessionName \in DOMAIN node
    /\ \A c \in SessionMembers \ {sessionName} : c \in DOMAIN node /\ node[c].helloHandled

\* Host.startP2PSession, the ServerNode constructor, ServerNode.start and sayHello.
StartP2PSession ==
    /\ sessionName \notin DOMAIN node
    /\ LET created == ServerNodeNew(sessionName, hostNodePort, neighborsInfo(exportUsers))
           dialing == connectAll(created)
           hello == generateHelloMessage(dialing)
           tos == DOMAIN dialing.neighbors
       IN  /\ node' = withNode(sessionName, queueMessages(dialing, tos, "hello", hello))
           /\ wire' = sentAtOnce(wire, dialing, tos, "hello", hello)
    /\ UNCHANGED <<nonMeshVars, emitted, msgVars>>

\* The TCP connection of a dialer is accepted: net.Server 'connection' on the
\* peer, which TLSServer re-emits as 'connection'.  The ClientNode's once
\* listener emits session-started.
TcpAccept(a, username) ==
    /\ a \in DOMAIN node
    /\ username \in DOMAIN node[a].neighbors
    /\ node[a].neighbors[username].dialer = "connecting"
    /\ \E b \in listenerAt(node[a].neighbors[username].ip,
                           node[a].neighbors[username].serverPort) :
          /\ node' = [node EXCEPT ![a].neighbors[username].dialer = "tcp",
                                  ![b].onceConnection = FALSE]
          /\ emitted' = IF node[b].onceConnection THEN emitSessionStarted(b) ELSE emitted
    /\ UNCHANGED <<nonMeshVars, wire, msgVars>>

\* The TLS handshake of a dialer completes: the certificate names the
\* neighbor and the port; 'tls-connected' resolves the connectionPromise and
\* the waiting messages are sent.
TlsConnected(a, username) ==
    /\ a \in DOMAIN node
    /\ username \in DOMAIN node[a].neighbors
    /\ node[a].neighbors[username].dialer = "tcp"
    /\ \E b \in listenerAt(node[a].neighbors[username].ip,
                           node[a].neighbors[username].serverPort) :
          node[b].identifier = username
    /\ node' = [node EXCEPT ![a].neighbors[username].dialer = "connected",
                            ![a].neighbors[username].queued = <<>>]
    /\ wire' = [wire EXCEPT ![<<a, username>>] = @ \o node[a].neighbors[username].queued]
    /\ UNCHANGED <<nonMeshVars, emitted, msgVars>>

\* Mutant: the receiveKey of a new neighbor is read from that neighbor's row.
helloNeighborInfo_NeighborRow(row, selfRow) ==
    [userName |-> row.username, ip |-> row.ip, port |-> row.port,
     sendKey |-> row.sendKey, receiveKey |-> row.receiveKey]

\* ClientNode.handleClientMessage: the neighbor built from a payload row;
\* sendKey from the row, receiveKey from the row of the node itself.
helloNeighborInfo(row, selfRow) ==
    [userName |-> row.username, ip |-> row.ip, port |-> row.port,
     sendKey |-> row.sendKey,
     receiveKey |-> IF selfRow = {} THEN UndefinedKey
                    ELSE (CHOOSE r \in selfRow : TRUE).receiveKey]

RECURSIVE addHelloRows(_, _, _)
addHelloRows(n, rows, selfRow) ==
    IF rows = {} THEN n
    ELSE LET row == CHOOSE r \in rows : TRUE
         IN  addHelloRows(
                IF row.username \in DOMAIN n.neighbors THEN n
                ELSE addNegihbor(n, helloNeighborInfo(row, selfRow)),
                rows \ {row}, selfRow)

\* Whether the ClientNode handler processes a hello: exactly one neighbor, the
\* sender is that neighbor at its pinned address, and the payload decrypts
\* under the receiveKey held for the sender.
helloAccepted(n, msg) ==
    /\ Cardinality(DOMAIN n.neighbors) = 1
    /\ msg.from \in DOMAIN n.neighbors
    /\ n.neighbors[msg.from].ip = msg.fromIP
    /\ n.neighbors[msg.from].receiveKey # UndefinedKey
    /\ aesDecrypt(n.neighbors[msg.from].receiveKey, msg.encryptedMessage).status = "success"

\* ClientNode.handleClientMessage for a hello read from the listener.
ClientHandleHello(c, ch) ==
    /\ wire[ch] # <<>>
    /\ Head(wire[ch]).type = "hello"
    /\ c \in listenerAt(Head(wire[ch]).toIP, Head(wire[ch]).toPort)
    /\ c # sessionName
    /\ LET msg == Head(wire[ch])
           read == [wire EXCEPT ![ch] = Tail(@)]
       IN
       IF helloAccepted(node[c], msg)
       THEN LET n == node[c]
                decrypted == aesDecrypt(n.neighbors[msg.from].receiveKey, msg.encryptedMessage)
                payload == decode64(decrypted.message)
                selfRow == {r \in payload :
                               r.username = n.identifier /\ r.port = n.tcpServerPort}
                added == addHelloRows(n, payload, selfRow)
                dialing == connectAll(added)
                handled == [dialing EXCEPT !.helloHandled = TRUE]
            IN  /\ node' = withNode(c, queueMessages(handled, {msg.from}, "ack-hello", {}))
                /\ wire' = sentAtOnce(read, handled, {msg.from}, "ack-hello", {})
       ELSE /\ node' = node
            /\ wire' = read
    /\ UNCHANGED <<nonMeshVars, emitted, msgVars>>

\* ServerNode.handleClientMessage: ackedNeighbors.size === neighbors.size.
ackCompletes(n, sender) ==
    Cardinality(n.ackedNeighbors \cup {sender}) = Cardinality(DOMAIN n.neighbors)

\* ServerNode.handleClientMessage for an ack-hello from sender at remoteAddress.
ServerHandleAckHello(sender, remoteAddress) ==
    LET n == node[sessionName]
    IN  IF sender \notin DOMAIN n.neighbors \/ n.neighbors[sender].ip # remoteAddress
        THEN UNCHANGED <<node, emitted>>
        ELSE IF ackCompletes(n, sender)
             THEN /\ emitted' = emitSessionStarted(sessionName)
                  /\ node' = [node EXCEPT ![sessionName].ackedNeighbors = {}]
             ELSE /\ node' = [node EXCEPT ![sessionName].ackedNeighbors = @ \cup {sender}]
                  /\ UNCHANGED emitted

\* An ack-hello a client sent arrives on the host's listener.
ServerReceiveAckHello(ch) ==
    /\ wire[ch] # <<>>
    /\ Head(wire[ch]).type = "ack-hello"
    /\ sessionName \in listenerAt(Head(wire[ch]).toIP, Head(wire[ch]).toPort)
    /\ ServerHandleAckHello(Head(wire[ch]).from, Head(wire[ch]).fromIP)
    /\ wire' = [wire EXCEPT ![ch] = Tail(@)]
    /\ UNCHANGED <<nonMeshVars, msgVars>>

\* A client that has answered the hello over its established channel to the
\* host sends ack-hello again (the handler does not decrypt the message and
\* keeps no record of past senders); remoteAddress is the address the
\* repeated message arrives from.
ServerReceiveRepeatedAckHello(sender, remoteAddress) ==
    /\ sessionName \in DOMAIN node
    /\ sender \in DOMAIN node
    /\ node[sender].helloHandled
    /\ sessionName \in DOMAIN node[sender].neighbors
    /\ node[sender].neighbors[sessionName].dialer = "connected"
    /\ ServerHandleAckHello(sender, remoteAddress)
    /\ UNCHANGED <<nonMeshVars, wire, msgVars>>

\* The coordinator after the users of a roster have each completed the two
\* rounds once, from their own address, with the session passcode; every
\* client has built its ClientNode from the reply.
Rosters == {<<>>, <<"u1">>, <<"u2">>, <<"u1", "u2">>, <<"u2", "u1">>}
clientNodePort == CHOOSE p \in Ports : TRUE

MeshInit ==
    \E roster \in Rosters :
        LET names == seqToSet(roster)
        IN  /\ clients = [u \in names |-> [retryCount |-> 0, ip |-> clientIP[u], registered |-> TRUE]]
            /\ userDB = [u \in names |-> [eph |-> 1, serverSession |-> SessionKey(u, 1)]]
            /\ authenticatedClients =
                  [i \in 1..Len(roster) |->
                      [userName |-> roster[i], ip |-> clientIP[roster[i]], port |-> clientNodePort]]
            /\ reply = IF roster = <<>> THEN NoReply
                       ELSE Reply("srp-handshake_2", "success", NoError)
            /\ event = IF roster = <<>> THEN NoEvent
                       ELSE Event("connected", roster[Len(roster)])
            /\ failedProofs = [i \in IPs |-> [count |-> 0, names |-> {}]]
            /\ node = [u \in names |->
                         ClientNodeNew(u, clientNodePort,
                            [userName |-> sessionName, ip |-> HostIP, port |-> hostNodePort],
                            SessionKey(u, 1))]
            /\ wire = [ch \in Members \X Members |-> <<>>]
            /\ emitted = [m \in Members |-> 0]
            /\ inbox = [m \in Members |-> <<>>]
            /\ outbox = [ch \in Members \X Members |-> <<>>]
            /\ dialIdle
            /\ portsIdle
            /\ lifeIdle
            /\ joinIdle

MeshNext ==
    \/ StartP2PSession
    \/ \E a \in Members, username \in Members : TcpAccept(a, username)
    \/ \E a \in Members, username \in Members : TlsConnected(a, username)
    \/ \E c \in Users, ch \in Members \X Members : ClientHandleHello(c, ch)
    \/ \E ch \in Members \X Members : ServerReceiveAckHello(ch)
    \/ \E sender \in Users, remoteAddress \in IPs :
          ServerReceiveRepeatedAckHello(sender, remoteAddress)

MeshSpec == MeshInit /\ [][MeshNext]_vars

\* The event loop runs every pending callback: a dial in progress is accepted
\* by a listening peer, a handshake completes, a message that was written to
\* an established channel is handled by the peer.
MeshFairness ==
    /\ \A a \in Members, username \in Members :
          WF_vars(TcpAccept(a, username)) /\ WF_vars(TlsConnected(a, username))
    /\ \A ch \in Members \X Members :
          /\ WF_vars(\E c \in Users : ClientHandleHello(c, ch))
          /\ WF_vars(ServerReceiveAckHello(ch))

MeshFairSpec == MeshSpec /\ MeshFairness

(***************************************************************************)
(* The host between "start mesh" and the end of the bootstrap: the          *)
(* coordinator keeps serving until the host's node emits session-started.   *)
(***************************************************************************)
\* Host.startP2PSession installs stopAdvertising as the handler of the node's
\* 'session-started'; nothing else stops the coordinator.
coordinatorStopped == emitted[sessionName] > 0

\* The bootstrap of the mesh, while a user who was not authenticated when the
\* mesh was started runs the handshake rounds from its own address.
HostNext ==
    \/ MeshNext
    \/ \E username \in Users \ DOMAIN node :
          /\ ~coordinatorStopped
          /\ UNCHANGED <<failedProofs, nonCoordVars>>
          /\ \/ Handshake1(clientIP[username], username)
             \/ \E sessionProof \in Proofs :
                   Handshake2(clientIP[username], username, sessionProof, clientNodePort)
             \/ ConnectionClosed(clientIP[username])

\* The host starts the mesh with at most one authenticated client.
HostInit == MeshInit /\ Len(authenticatedClients) <= 1

HostSpec == HostInit /\ [][HostNext]_vars

(***************************************************************************)
(* Application messages: Node.sendMessage and Node.handleMessage.           *)
(***************************************************************************)
Texts == {"hi", "yo"}

RECURSIVE totalLen(_, _)
totalLen(f, S) ==
    IF S = {} THEN 0
    ELSE LET x == CHOOSE y \in S : TRUE IN Len(f[x]) + totalLen(f, S \ {x})

\* The application calls sendMessage(text, username) on the node of a, once
\* the mesh is bootstrapped.
SendMessage(a, username, text) ==
    /\ Bootstrapped
    /\ a \in DOMAIN node
    /\ canSend(node[a], username)
    /\ totalLen(outbox, DOMAIN outbox) < MaxSent
    /\ node' = withNode(a, queueMessages(node[a], {username}, "message", text))
    /\ wire' = sentAtOnce(wire, node[a], {username}, "message", text)
    /\ outbox' = [outbox EXCEPT ![<<a, username>>] = Append(@, text)]
    /\ UNCHANGED <<nonMeshVars, emitted, inbox>>

\* Mutant: the payload is decrypted under the key the node sends with.
messageKey_SendKey(n, sender) == n.neighbors[sender].sendKey

\* Node.handleMessage: the key the payload is decrypted under.
messageKey(n, sender) == n.neighbors[sender].receiveKey

\* Mutant: the address the message comes from is not compared.
messageAccepted_NoPin(n, msg) ==
    /\ msg.from \in DOMAIN n.neighbors
    /\ messageKey(n, msg.from) # UndefinedKey
    /\ aesDecrypt(messageKey(n, msg.from), msg.encryptedMessage).status = "success"

\* Node.handleMessage: known sender at its address, a key, a payload that decrypts.
messageAccepted(n, msg) ==
    /\ msg.from \in DOMAIN n.neighbors
    /\ n.neighbors[msg.from].ip = msg.fromIP
    /\ messageKey(n, msg.from) # UndefinedKey
    /\ aesDecrypt(messageKey(n, msg.from), msg.encryptedMessage).status = "success"

\* The listener of b reads a message of type 'message' from channel ch:
\* the handler of ServerNode or ClientNode passes it to Node.handleMessage.
HandleMessage(b, ch) ==
    /\ wire[ch] # <<>>
    /\ Head(wire[ch]).type = "message"
    /\ b \in listenerAt(Head(wire[ch]).toIP, Head(wire[ch]).toPort)
    /\ LET msg == Head(wire[ch])
       IN  inbox' = IF messageAccepted(node[b], msg)
                    THEN [inbox EXCEPT ![b] = Append(@,
                            [sender |-> msg.from,
                             text |-> decode64(aesDecrypt(messageKey(node[b], msg.from),
                                                          msg.encryptedMessage).message)])]
                    ELSE inbox
    /\ wire' = [wire EXCEPT ![ch] = Tail(@)]
    /\ UNCHANGED <<nonMeshVars, node, emitted, outbox>>

MsgNext ==
    \/ MeshNext
    \/ \E a \in Members, username \in Members, text \in Texts : SendMessage(a, username, text)
    \/ \E b \in Members, ch \in Members \X Members : HandleMessage(b, ch)

MsgSpec == MeshInit /\ [][MsgNext]_vars

(***************************************************************************)
(* Messages from outside the mesh.  A process at any address connects to   *)
(* the listener of a node and sends a NodeMessage with any sender name;    *)
(* the connection to the listener of b is the channel <<b, b>>, which no    *)
(* dialer of the mesh uses.  The payload is encrypted under the key the     *)
(* receiver decrypts with, the forgery that gets furthest.                  *)
(***************************************************************************)
Stranger == "mallory"

forgedKey(b, from) ==
    IF from \in DOMAIN node[b].neighbors THEN node[b].neighbors[from].receiveKey
    ELSE SessionKey("u1", 1)

\* The receiving node does not know the sender name of the message, or has
\* another address pinned for it.
rejects(b, msg) ==
    ~(/\ msg.from \in DOMAIN node[b].neighbors
      /\ node[b].neighbors[msg.from].ip = msg.fromIP)

\* The sender is one the receiver does not know, or it is not at the address
\* the receiver has pinned for it.
ForgedMessage(b, type, from, fromIP) ==
    /\ b \in DOMAIN node
    /\ rejects(b, [from |-> from, fromIP |-> fromIP])
    /\ \A m \in Members : wire[<<m, m>>] = <<>>
    /\ totalLen(inbox, DOMAIN inbox) < MaxSent
    /\ wire' = [wire EXCEPT ![<<b, b>>] =
                  <<NodeMessage(type, from, fromIP, node[b].ip, node[b].tcpServerPort,
                                aesEncrypt(forgedKey(b, from),
                                           encode64(IF type = "message" THEN "hi" ELSE {})))>>]
    /\ UNCHANGED <<nonMeshVars, node, emitted, msgVars>>

\* A message that the handler of b passes to Node.handleMessage and that is
\* not of type 'message': a hello at the ServerNode, an ack-hello at a
\* ClientNode.  Nothing is done with it.
HandleOther(b, ch) ==
    /\ wire[ch] # <<>>
    /\ b \in listenerAt(Head(wire[ch]).toIP, Head(wire[ch]).toPort)
    /\ \/ Head(wire[ch]).type = "hello" /\ b = sessionName
       \/ Head(wire[ch]).type = "ack-hello" /\ b # sessionName
    /\ wire' = [wire EXCEPT ![ch] = Tail(@)]
    /\ UNCHANGED <<nonMeshVars, node, emitted, msgVars>>

DropNext ==
    \/ MeshNext
    \/ \E b \in Members, type \in {"hello", "ack-hello", "message"},
          from \in Members \cup {Stranger}, fromIP \in IPs \cup {HostIP} :
             ForgedMessage(b, type, from, fromIP)
    \/ \E b \in Members, ch \in Members \X Members : HandleMessage(b, ch)
    \/ \E b \in Members, ch \in Members \X Members : HandleOther(b, ch)

DropSpec == MeshInit /\ [][DropNext]_vars

\* No coordinator has been started; no mesh node has been created.
coordIdle ==
    /\ clients = EmptyMap
    /\ userDB = EmptyMap
    /\ authenticatedClients = <<>>
    /\ reply = NoReply
    /\ event = NoEvent
    /\ failedProofs = [i \in IPs |-> [count |-> 0, names |-> {}]]

meshIdle ==
    /\ node = EmptyMap
    /\ wire = [ch \in Members \X Members |-> <<>>]
    /\ emitted = [m \in Members |-> 0]
    /\ inbox = [m \in Members |-> <<>>]
    /\ outbox = [ch \in Members \X Members |-> <<>>]

(***************************************************************************)
(* TLSClient: verification of the peer certificate.  Strings are sequences  *)
(* of characters.                                                          *)
(***************************************************************************)
Alphabet == {"h", ":", "1", "7"}
DialNames == {<<"h">>}
DialPorts == {7, 17}

RECURSIVE StringsUpTo(_)
StringsUpTo(n) ==
    IF n = 0 THEN {<<>>}
    ELSE LET shorter == StringsUpTo(n - 1)
         IN  shorter \cup {Append(str, c) : str \in shorter, c \in Alphabet}

CommonNames == StringsUpTo(MaxCNLen)

\* Number.prototype.toString: the decimal digits.
RECURSIVE toString(_)
toString(n) ==
    LET digit == <<"0", "1", "2", "3", "4", "5", "6", "7", "8", "9">>[(n % 10) + 1]
    IN  IF n < 10 THEN <<digit>> ELSE Append(toString(n \div 10), digit)

\* String.prototype.split(':'): the fields between the colons.
RECURSIVE split(_)
split(str) ==
    IF \A i \in 1..Len(str) : str[i] # ":" THEN <<str>>
    ELSE LET i == CHOOSE k \in 1..Len(str) :
                     str[k] = ":" /\ \A j \in 1..(k - 1) : str[j] # ":"
         IN  <<SubSeq(str, 1, i - 1)>> \o split(SubSeq(str, i + 1, Len(str)))

\* TLSServer.generateCert: the common name of a listener's certificate.
commonName(name, hostPort) ==
    name \o (IF hostPort # 0 THEN <<":">> \o toString(hostPort) ELSE <<>>)

\* The verify callback of the TLSClient at depth 0: TRUE when it returns true.
verify(expectedName, remotePort, cn) ==
    LET fields == split(cn)
    IN  ~ \/ fields[1] # expectedName
          \/ Len(fields) < 2
          \/ fields[2] # toString(remotePort)

\* A dialer created for a session name has connected its socket to a port;
\* the peer presents a certificate with some common name.
CertInit ==
    /\ coordIdle
    /\ meshIdle
    /\ portsIdle
    /\ lifeIdle
    /\ joinIdle
    /\ \E name \in DialNames, port \in DialPorts, cn \in CommonNames :
          tlsDial = [state |-> "handshaking", sessionName |-> name,
                     remotePort |-> port, cn |-> cn]

\* forge calls verify on the peer certificate; a rejection sends the
\* bad_certificate alert and closes the connection.
TlsVerify ==
    /\ tlsDial.state = "handshaking"
    /\ tlsDial' = [tlsDial EXCEPT !.state =
                      IF verify(tlsDial.sessionName, tlsDial.remotePort, tlsDial.cn)
                      THEN "verified" ELSE "closed"]
    /\ UNCHANGED nonDialVars

\* The connected callback: 'tls-connected' is emitted.
TlsConnectedEvent ==
    /\ tlsDial.state = "verified"
    /\ tlsDial' = [tlsDial EXCEPT !.state = "tls-connected"]
    /\ UNCHANGED nonDialVars

CertNext == TlsVerify \/ TlsConnectedEvent

CertSpec == CertInit /\ [][CertNext]_vars

(***************************************************************************)
(* The keep-alive of a TLS channel (keepAlive = true): the heartbeat        *)
(* challenges, the retransmit and disconnect timers and the                 *)
(* disconnectPromise of one TLSClient connection.  The per-client record    *)
(* of the TLSServer runs the same code.  A challenge is the number of the   *)
(* random string drawn for it, 0 the empty string of the constructor.  The  *)
(* retransmit timer is named after the value of `reconnecting` its callback *)
(* closed over.  Heartbeat responses reach the callback once the handshake  *)
(* is done and until the connection is closed, with any payload.            *)
(***************************************************************************)
Challenges == 0..MaxChallenges

\* The TLSClient after its constructor, its certificate check passed.
constructed ==
    [state |-> "verified", alive |-> FALSE, heartbeatStr |-> 0, drawn |-> 0,
     heartbeatDisconnectTimer |-> FALSE, heartbeatRetransmitTimer |-> "none",
     disconnectPromise |-> "none", emits |-> <<>>]

\* forge.random.getBytesSync(16) and prepareHeartbeatRequest: a fresh challenge.
newChallenge(c) == [c EXCEPT !.heartbeatStr = c.drawn + 1, !.drawn = c.drawn + 1]

\* The then of a disconnectPromise.
disconnectPromiseThen(c) ==
    newChallenge([c EXCEPT !.alive = FALSE, !.emits = Append(@, "disconnected")])

\* disconnectPromiseResolve(): a promise settles once.
disconnectPromiseResolve(c) ==
    IF c.disconnectPromise = "pending"
    THEN disconnectPromiseThen([c EXCEPT !.disconnectPromise = "resolved"])
    ELSE c

\* The connected callback.
connected(c) ==
    [newChallenge(c) EXCEPT !.state = "tls-connected", !.alive = TRUE,
                            !.disconnectPromise = "pending",
                            !.heartbeatDisconnectTimer = TRUE]

heartbeatReceived_AnyPayload(c, payload) ==
    [c EXCEPT !.heartbeatDisconnectTimer = FALSE,
              !.heartbeatRetransmitTimer = IF c.alive THEN "plain" ELSE "reconnecting",
              !.alive = TRUE,
              !.emits = IF c.alive THEN @ ELSE Append(@, "reconnected")]

\* The heartbeatReceived callback.
heartbeatReceived(c, payload) ==
    IF payload = c.heartbeatStr
    THEN [c EXCEPT !.heartbeatDisconnectTimer = FALSE,
                   !.heartbeatRetransmitTimer = IF c.alive THEN "plain" ELSE "reconnecting",
                   !.alive = TRUE,
                   !.emits = IF c.alive THEN @ ELSE Append(@, "reconnected")]
    ELSE c

\* The callback of the heartbeatRetransmitTimer.
retransmit(c) ==
    [newChallenge(c) EXCEPT !.heartbeatRetransmitTimer = "none",
                            !.heartbeatDisconnectTimer = TRUE,
                            !.disconnectPromise =
                                IF c.heartbeatRetransmitTimer = "reconnecting"
                                THEN "pending" ELSE @]

\* The closed callback.
closed(c) ==
    [c EXCEPT !.state = "closed", !.heartbeatDisconnectTimer = FALSE,
              !.heartbeatRetransmitTimer = "none"]

KeepAliveConnected ==
    /\ tlsDial.state = "verified"
    /\ tlsDial' = connected(tlsDial)
    /\ UNCHANGED nonDialVars

HeartbeatArrives(payload) ==
    /\ tlsDial.state = "tls-connected"
    /\ tlsDial' = heartbeatReceived(tlsDial, payload)
    /\ UNCHANGED nonDialVars

RetransmitTimerFires ==
    /\ tlsDial.state = "tls-connected"
    /\ tlsDial.heartbeatRetransmitTimer # "none"
    /\ tlsDial.drawn < MaxChallenges
    /\ tlsDial' = retransmit(tlsDial)
    /\ UNCHANGED nonDialVars

DisconnectTimerFires ==
    /\ tlsDial.state = "tls-connected"
    /\ tlsDial.heartbeatDisconnectTimer
    /\ tlsDial.drawn < MaxChallenges
    /\ tlsDial' = disconnectPromiseResolve(
                      [tlsDial EXCEPT !.heartbeatDisconnectTimer = FALSE])
    /\ UNCHANGED nonDialVars

TlsClosed ==
    /\ tlsDial.state = "tls-connected"
    /\ tlsDial' = closed(tlsDial)
    /\ UNCHANGED nonDialVars

BeatInit ==
    /\ coordIdle
    /\ meshIdle
    /\ portsIdle
    /\ lifeIdle
    /\ joinIdle
    /\ tlsDial = constructed

BeatNext ==
    \/ KeepAliveConnected
    \/ \E payload \in Challenges : HeartbeatArrives(payload)
    \/ RetransmitTimerFires
    \/ DisconnectTimerFires
    \/ TlsClosed

BeatSpec == BeatInit /\ [][BeatNext]_vars

(***************************************************************************)
(* The open-TCP-port helper and P2PSession.create.                         *)
(***************************************************************************)
AllPorts == 1..maxPort

\* The ports the servers of the session listen on.
ownPorts == {creation.listening[s] : s \in DOMAIN creation.listening}

\* isPortAvailable: a probe server listens on the port and, when it is
\* listening, is closed again.
isPortAvailable(port) == port \notin occupied /\ port \notin ownPorts

firstDown_Start(startFrom) == startFrom

\* The port the downward loop starts from.
firstDown(startFrom) == startFrom - 1

\* The loop conditions, evaluated after i was assigned: the upward loop runs
\* while i <= max, the downward loop while i >= min; then the call returns.
afterDown(c) == IF c.i >= minPort THEN c ELSE [c EXCEPT !.phase = "return"]
afterUp(c) ==
    IF c.i <= maxPort THEN c
    ELSE afterDown([c EXCEPT !.phase = "down", !.i = firstDown(c.startFrom)])

\* The call sites of P2PSession.create, in order, with their start value
\* (0: no start value is passed).
callSites == <<"coordinatorPort", "nodePort", "discoveryPort">>
startOf(site) == IF site = "discoveryPort" THEN defaultDiscoveryPort ELSE 0
siteError(site) ==
    CASE site = "coordinatorPort" -> "Could not secure a port for coordinator."
      [] site = "nodePort" -> "Could not secure a port for node."
      [] OTHER -> "Could not secure a port."
nextPc(site) ==
    CASE site = "coordinatorPort" -> "nodePort"
      [] site = "nodePort" -> "discoveryPort"
      [] OTHER -> "created"

\* getTCPOpenPort is called: a missing start value is replaced by a random
\* port of the range.
GetTCPOpenPort(random) ==
    /\ creation.pc \in seqToSet(callSites)
    /\ portCall = NoCall
    /\ LET given == startOf(creation.pc)
           startFrom == IF given = 0 THEN random ELSE given
       IN  portCall' = afterUp([phase |-> "up", startFrom |-> startFrom, i |-> startFrom,
                                openPort |-> 0, probed |-> <<>>])
    /\ UNCHANGED <<nonPortVars, occupied, creation>>

\* One turn of a loop: port i is probed; a free port ends the loops.
ProbePort ==
    /\ portCall.phase \in {"up", "down"}
    /\ LET portAvailable == isPortAvailable(portCall.i)
           logged == [portCall EXCEPT !.probed =
                         Append(@, [port |-> portCall.i, available |-> portAvailable])]
       IN  portCall' =
              IF portAvailable
              THEN [logged EXCEPT !.openPort = portCall.i, !.phase = "return"]
              ELSE IF portCall.phase = "up"
                   THEN afterUp([logged EXCEPT !.i = @ + 1])
                   ELSE afterDown([logged EXCEPT !.i = @ - 1])
    /\ UNCHANGED <<nonPortVars, occupied, creation>>

\* The promise of getTCPOpenPort settles and create continues.
ReturnPort ==
    /\ portCall.phase = "return"
    /\ portCall' = NoCall
    /\ creation' =
          IF portCall.openPort = 0
          THEN [creation EXCEPT !.pc = "rejected", !.error = siteError(creation.pc)]
          ELSE [creation EXCEPT !.pc = nextPc(creation.pc),
                                ![creation.pc] = portCall.openPort]
    /\ UNCHANGED <<nonPortVars, occupied>>

\* TLSServer.listen on a port: the server listens unless the port is in use.
listen(c, server, port) ==
    IF isPortAvailable(port)
    THEN [c EXCEPT !.listening = [s \in DOMAIN @ \cup {server} |-> IF s = server THEN port ELSE @[s]]]
    ELSE [c EXCEPT !.listenError = @ \cup {server}]

\* Host.start: the coordinator listens on coordinatorPort.
HostStart ==
    /\ creation.pc = "created"
    /\ creation' = listen([creation EXCEPT !.pc = "started"], "coordinator",
                          creation.coordinatorPort)
    /\ UNCHANGED <<nonPortVars, occupied, portCall>>

\* The mesh node is constructed: its listener listens on nodePort.
NodeListen ==
    /\ creation.pc = "started"
    /\ creation' = listen([creation EXCEPT !.pc = "node"], "node", creation.nodePort)
    /\ UNCHANGED <<nonPortVars, occupied, portCall>>

\* Another process of the device starts or stops listening on a port.
PortTaken(port) ==
    /\ isPortAvailable(port)
    /\ occupied' = occupied \cup {port}
    /\ UNCHANGED <<nonPortVars, portCall, creation>>

PortReleased(port) ==
    /\ port \in occupied
    /\ occupied' = occupied \ {port}
    /\ UNCHANGED <<nonPortVars, portCall, creation>>

PortInit ==
    /\ coordIdle
    /\ meshIdle
    /\ dialIdle
    /\ lifeIdle
    /\ joinIdle
    /\ occupied \in SUBSET AllPorts
    /\ portCall = NoCall
    /\ creation = [pc |-> "coordinatorPort", coordinatorPort |-> 0, nodePort |-> 0,
                   discoveryPort |-> 0, error |-> "", listening |-> EmptyMap,
                   listenError |-> {}]

PortNext ==
    \/ \E random \in minPort..maxPort : GetTCPOpenPort(random)
    \/ ProbePort
    \/ ReturnPort
    \/ HostStart
    \/ NodeListen
    \/ \E port \in AllPorts : PortTaken(port)
    \/ \E port \in AllPorts : PortReleased(port)

PortSpec == PortInit /\ [][PortNext]_vars

(***************************************************************************)
(* The life of one Node after its mesh is established: the reconnection    *)
(* controller and destroy().  The neighbors are the environment: the TCP    *)
(* path to a neighbor breaks and is restored, a neighbor dials the Node's   *)
(* listener, a heartbeat is answered in time or not.  The operators below   *)
(* transform st = [p |-> peers, c |-> controller, h |-> heard]; a handler   *)
(* that calls another handler is their composition.                        *)
(***************************************************************************)
NeighborOrder == <<"n1", "n2">>
NeighborSets == {{"n1"}, {"n1", "n2"}}
\* The remote ports of the connections that neighbors open to the listener.
ClientPorts == {1, 2}

\* The neighbors of the Node in the iteration order of its map.
neighborSeq(st) == SelectSeq(NeighborOrder, LAMBDA n : n \in DOMAIN st.p)

emit(st, n, ev) == [st EXCEPT !.h[n] = @ \cup {ev}]

_isNeighborDisconnected(st, n) == st.p[n].disconnected \/ st.p[n].softDisconnected

\* TLSClient.destroy up to its setTimeout: the heartbeat timers are cleared.
destroyDialer(st, n, caller) ==
    [st EXCEPT !.p[n].timers = FALSE, !.p[n].destroying = @ \cup {caller}]

\* Promise.all of reconnect(): when no reconnect_user promise is pending the
\* reconnecting flag is cleared.
finishAll(st) ==
    IF st.c.reconnectPc = "users" /\ st.c.pending = {}
    THEN [st EXCEPT !.c.reconnecting = FALSE, !.c.reconnectPc = "idle"]
    ELSE st

\* reconnect_user up to its first await.  owner is "all" for a call made by
\* reconnect(), whose promise Promise.all waits for.
reconnect_user(st, n, owner) ==
    IF ~st.p[n].rebuildingSocket /\ st.p[n].disconnected
    THEN destroyDialer([st EXCEPT !.p[n].rebuildingSocket = TRUE,
                                  !.p[n].dialFor = owner,
                                  !.c.pending = IF owner = "all" THEN @ \cup {n} ELSE @],
                       n, "reconnect")
    ELSE [st EXCEPT !.p[n].rebuildingSocket = FALSE]

RECURSIVE reconnectEach(_, _)
reconnectEach(st, order) ==
    IF order = <<>> THEN st
    ELSE reconnectEach(reconnect_user(st, Head(order), "all"), Tail(order))

\* The loop of reconnect() over the neighbors.
reconnectUsers(st) ==
    finishAll(reconnectEach([st EXCEPT !.c.reconnectPc = "users"], neighborSeq(st)))

\* Mutant: reconnect() without the guard on the reconnecting flag.
reconnect_NoGuard(st) ==
    LET s1 == [st EXCEPT !.c.reconnecting = TRUE]
    IN  IF ~ \A n \in DOMAIN s1.p :
                /\ ~s1.p[n].disconnected
                /\ ~s1.p[n].softDisconnected
                /\ ~s1.p[n].serverSoftDisconnected
        THEN [s1 EXCEPT !.c.reconnectPc = "server"]
        ELSE reconnectUsers(s1)

\* reconnect() up to its first await.
reconnect(st) ==
    IF st.c.reconnecting THEN st
    ELSE LET s1 == [st EXCEPT !.c.reconnecting = TRUE]
         IN  IF ~ \A n \in DOMAIN s1.p :
                     /\ ~s1.p[n].disconnected
                     /\ ~s1.p[n].softDisconnected
                     /\ ~s1.p[n].serverSoftDisconnected
             THEN [s1 EXCEPT !.c.reconnectPc = "server"]
             ELSE reconnectUsers(s1)

\* The Node's handler of a dialer's 'socket-closed'.
onSocketClosed(st, n) ==
    LET was_disconnected == _isNeighborDisconnected(st, n)
        s1 == [st EXCEPT !.p[n].disconnected = TRUE]
        s2 == IF \A x \in DOMAIN s1.p : s1.p[x].disconnected THEN reconnect(s1) ELSE s1
    IN  IF ~was_disconnected THEN emit(s2, n, "disconnected") ELSE s2

\* The Node's handler of a dialer's 'disconnected' (heartbeat timeout).
onDisconnected(st, n) ==
    LET was_disconnected == _isNeighborDisconnected(st, n)
        s1 == [st EXCEPT !.p[n].softDisconnected = TRUE]
        s2 == IF \A x \in DOMAIN s1.p : s1.p[x].softDisconnected /\ ~s1.p[x].disconnected
              THEN reconnect(s1) ELSE s1
    IN  IF ~was_disconnected THEN emit(s2, n, "disconnected") ELSE s2

\* The Node's handler of a dialer's 'reconnected' (heartbeat answered again).
onReconnected(st, n) == emit([st EXCEPT !.p[n].softDisconnected = FALSE], n, "reconnected")

\* The Node's handler of a dialer's 'tls-connected': the connectionPromise
\* made for this dialer resolves, and the message that waits on it is sent.
onTlsConnected(st, n) ==
    emit([st EXCEPT !.p[n].connectionPromise = "resolved",
                    !.p[n].message = IF @ = "held" THEN "sent" ELSE @,
                    !.p[n].disconnected = FALSE,
                    !.p[n].softDisconnected = FALSE,
                    !.p[n].serverSoftDisconnected = FALSE,
                    !.p[n].rebuildingSocket = FALSE], n, "connected")

\* The socket and the TLS connection of a dialer close: the timers are
\* cleared, 'destroyed' and then 'socket-closed' are emitted.
dialerClosed(st, n) ==
    LET s1 == [st EXCEPT !.p[n].conn = "closed", !.p[n].timers = FALSE,
                         !.p[n].destroyed = TRUE]
    IN  IF s1.p[n].wired THEN onSocketClosed(s1, n) ELSE s1

\* resolve() of the reconnect_user call that dialed n.
resolveUser(st, n) ==
    finishAll([st EXCEPT !.p[n].rebuildingSocket = FALSE,
                         !.c.pending = IF st.p[n].dialFor = "all" THEN @ \ {n} ELSE @])

\* What follows 'await destroy()' of the dialer of n.  In reconnect_user:
\* rebuild, _generateNeighborTLSClient and connect; the neighbor gets a new
\* connectionPromise, and a message that waits on the previous one, whose
\* dialer has lost its listeners, waits for ever.  In Node.destroy: the
\* next neighbor's dialer is destroyed, or destroy() resolves.
resumed(st, n, caller) ==
    LET s1 == [st EXCEPT !.p[n].wired = FALSE]
        order == neighborSeq(st)
        k == CHOOSE i \in 1..Len(order) : order[i] = n
    IN  IF caller = "reconnect"
        THEN [s1 EXCEPT !.p[n].wired = TRUE, !.p[n].destroyed = FALSE,
                        !.p[n].alive = FALSE, !.p[n].conn = "connecting",
                        !.p[n].connectionPromise = "pending",
                        !.p[n].message = IF @ = "held" THEN "orphaned" ELSE @]
        ELSE IF k < Len(order)
             THEN destroyDialer(s1, order[k + 1], "node")
             ELSE [s1 EXCEPT !.c.destroyPc = "done"]

\* destroyedPromise.then of every destroy() of the dialer of n that waits.
afterDestroyed(st, n, callers) ==
    IF st.p[n].destroyed
    THEN LET s1 == [st EXCEPT !.p[n].awaiting = {}]
             s2 == IF "node" \in callers THEN resumed(s1, n, "node") ELSE s1
         IN  IF "reconnect" \in callers THEN resumed(s2, n, "reconnect") ELSE s2
    ELSE [st EXCEPT !.p[n].awaiting = callers]

state == [p |-> peers, c |-> controller, h |-> heard]

becomes(st) == peers' = st.p /\ controller' = st.c /\ heard' = st.h

established(nbrs) ==
    [n \in nbrs |->
        [disconnected |-> FALSE, softDisconnected |-> FALSE,
         serverSoftDisconnected |-> FALSE, rebuildingSocket |-> FALSE,
         clientPort |-> 1, connectionPromise |-> "resolved", message |-> "none",
         conn |-> "connected", alive |-> TRUE, timers |-> TRUE, destroyed |-> FALSE,
         wired |-> TRUE, destroying |-> {}, awaiting |-> {}, dialFor |-> "none"]]

\* Either the session has no mesh node yet, or its node has an established
\* channel to every neighbor.
LifeInit ==
    /\ coordIdle
    /\ meshIdle
    /\ dialIdle
    /\ portsIdle
    /\ joinIdle
    /\ \E nbrs \in NeighborSets \cup {{}} :
          /\ peers = established(nbrs)
          /\ controller = [created |-> nbrs # {}, reconnecting |-> FALSE,
                           listener |-> IF nbrs # {} THEN "listening" ELSE "none",
                           listenerWired |-> nbrs # {},
                           reconnectPc |-> "idle", pending |-> {},
                           destroyPc |-> "idle", destroyCalls |-> 0, error |-> ""]
          /\ network = [up |-> [n \in nbrs |-> TRUE], broken |-> [n \in nbrs |-> FALSE],
                  breaks |-> 0, timeouts |-> 0, dials |-> 0, sends |-> 0]
          /\ heard = [n \in nbrs |-> {}]

\* The TCP path between the Node and a neighbor breaks, and with it the
\* connection of a connected dialer; its 'close' event is still to come.
\* The events heard for the neighbor are counted from the break.
NetworkBreak(n) ==
    /\ n \in DOMAIN peers
    /\ network.up[n]
    /\ network.breaks < MaxBreaks
    /\ network' = [network EXCEPT !.up[n] = FALSE, !.broken[n] = TRUE, !.breaks = @ + 1]
    /\ peers' = [peers EXCEPT ![n].conn = IF @ = "connected" THEN "broken" ELSE @]
    /\ heard' = [heard EXCEPT ![n] = {}]
    /\ UNCHANGED <<nonLifeVars, controller>>

NetworkRestore(n) ==
    /\ n \in DOMAIN peers
    /\ ~network.up[n]
    /\ network' = [network EXCEPT !.up[n] = TRUE]
    /\ UNCHANGED <<nonLifeVars, peers, controller, heard>>

\* The 'close' event of the socket of a dialer whose connection broke.
SocketClosed(n) ==
    /\ n \in DOMAIN peers
    /\ peers[n].conn = "broken"
    /\ becomes(afterDestroyed(dialerClosed(state, n), n, peers[n].awaiting))
    /\ UNCHANGED <<nonLifeVars, network>>

\* The heartbeat of a dialer is not answered within the interval.
HeartbeatTimeout(n) ==
    /\ n \in DOMAIN peers
    /\ peers[n].conn \in {"connected", "broken"} /\ peers[n].alive /\ peers[n].timers
    /\ network.timeouts < MaxHeartbeatTimeouts
    /\ LET s1 == [state EXCEPT !.p[n].alive = FALSE, !.p[n].timers = FALSE]
       IN  becomes(IF s1.p[n].wired THEN onDisconnected(s1, n) ELSE s1)
    /\ network' = [network EXCEPT !.timeouts = @ + 1]
    /\ UNCHANGED nonLifeVars

\* A heartbeat response arrives at a dialer that was not alive.
HeartbeatReceived(n) ==
    /\ n \in DOMAIN peers
    /\ peers[n].conn = "connected" /\ ~peers[n].alive
    /\ network.up[n]
    /\ LET s1 == [state EXCEPT !.p[n].alive = TRUE, !.p[n].timers = TRUE]
       IN  becomes(IF s1.p[n].wired THEN onReconnected(s1, n) ELSE s1)
    /\ UNCHANGED <<nonLifeVars, network>>

\* The listener's 'connection' event for a connection from a neighbor, whose
\* remote port is recorded.
PeerConnects(n, port) ==
    /\ n \in DOMAIN peers
    /\ controller.listener = "listening" /\ controller.listenerWired
    /\ network.up[n]
    /\ network.dials < MaxPeerDials
    /\ becomes(reconnect_user([state EXCEPT !.p[n].serverSoftDisconnected = FALSE,
                                             !.p[n].clientPort = port],
                              n, "user"))
    /\ network' = [network EXCEPT !.dials = @ + 1]
    /\ UNCHANGED nonLifeVars

\* Node.sendMessage for a neighbor: connectionPromise.then(send).  On a
\* resolved promise the message is handed to the dialer at once, whatever
\* the state of its connection; on a pending one it is held.
sendMessage(st, n) ==
    [st EXCEPT !.p[n].message =
        IF st.p[n].connectionPromise = "resolved"
        THEN IF st.p[n].conn \in {"connected", "broken"} THEN "sent" ELSE "sent-closed"
        ELSE "held"]

\* The application sends a message to a neighbor.
SendToNeighbor(n) ==
    /\ n \in DOMAIN peers
    /\ controller.destroyCalls = 0
    /\ network.sends < MaxSends
    /\ becomes(sendMessage(state, n))
    /\ network' = [network EXCEPT !.sends = @ + 1]
    /\ UNCHANGED nonLifeVars

\* The setTimeout of a TLSClient.destroy fires: the TLS connection is closed
\* and the caller continues once 'destroyed' has been emitted.
DialerDestroyTimeout(n, caller) ==
    /\ n \in DOMAIN peers
    /\ caller \in peers[n].destroying
    /\ LET s1 == [state EXCEPT !.p[n].destroying = @ \ {caller}]
           s2 == IF s1.p[n].conn \in {"connected", "broken"} THEN dialerClosed(s1, n) ELSE s1
       IN  becomes(afterDestroyed(s2, n, peers[n].awaiting \cup {caller}))
    /\ UNCHANGED <<nonLifeVars, network>>

\* The connect of a rebuilt dialer reaches the neighbor's listener and the
\* handshake completes.
DialSucceeds(n) ==
    /\ n \in DOMAIN peers
    /\ peers[n].conn = "connecting"
    /\ network.up[n]
    /\ LET s1 == [state EXCEPT !.p[n].conn = "connected", !.p[n].alive = TRUE,
                               !.p[n].timers = TRUE]
           s2 == IF s1.p[n].wired THEN onTlsConnected(s1, n) ELSE s1
       IN  becomes(resolveUser(s2, n))
    /\ UNCHANGED <<nonLifeVars, network>>

\* The connect of a rebuilt dialer fails: the socket's 'error'.
DialFails(n) ==
    /\ n \in DOMAIN peers
    /\ peers[n].conn = "connecting"
    /\ ~network.up[n]
    /\ becomes(afterDestroyed(resolveUser(dialerClosed(state, n), n), n, peers[n].awaiting))
    /\ UNCHANGED <<nonLifeVars, network>>

\* reconnect(): the listener has been destroyed; rebuild starts to listen.
ReconnectServerDestroyed ==
    /\ controller.created
    /\ controller.reconnectPc = "server"
    /\ controller' = [controller EXCEPT !.listener = "closed", !.listenerWired = FALSE,
                                        !.reconnectPc = "rebuild"]
    /\ UNCHANGED <<nonLifeVars, network, peers, heard>>

\* reconnect(): the rebuilt listener listens; initReconnectLogic; every
\* neighbor is reconnected.
ReconnectServerRebuilt ==
    /\ controller.created
    /\ controller.reconnectPc = "rebuild"
    /\ becomes(reconnectUsers([state EXCEPT !.c.listener = "listening",
                                            !.c.listenerWired = TRUE]))
    /\ UNCHANGED <<nonLifeVars, network>>

\* P2PSession.destroy: this.node.destroy(), which starts to destroy the
\* listener.  Without a node the call throws.
SessionDestroy ==
    /\ controller.destroyCalls < MaxDestroyCalls
    /\ controller.destroyPc \in {"idle", "done"}
    /\ controller' =
          IF controller.created
          THEN [controller EXCEPT !.destroyCalls = @ + 1, !.destroyPc = "server"]
          ELSE [controller EXCEPT !.destroyCalls = @ + 1, !.error = "TypeError"]
    /\ UNCHANGED <<nonLifeVars, network, peers, heard>>

\* Node.destroy: the listener has been destroyed; the first dialer is next.
DestroyServerDestroyed ==
    /\ controller.created
    /\ controller.destroyPc = "server"
    /\ LET s1 == [state EXCEPT !.c.listener = "closed", !.c.listenerWired = FALSE,
                               !.c.destroyPc = "dialers"]
       IN  becomes(destroyDialer(s1, neighborSeq(s1)[1], "node"))
    /\ UNCHANGED <<nonLifeVars, network>>

LifeNext ==
    \/ \E n \in DOMAIN peers : NetworkBreak(n)
    \/ \E n \in DOMAIN peers : NetworkRestore(n)
    \/ \E n \in DOMAIN peers : SocketClosed(n)
    \/ \E n \in DOMAIN peers : HeartbeatTimeout(n)
    \/ \E n \in DOMAIN peers : HeartbeatReceived(n)
    \/ \E n \in DOMAIN peers, port \in ClientPorts : PeerConnects(n, port)
    \/ \E n \in DOMAIN peers : SendToNeighbor(n)
    \/ \E n \in DOMAIN peers, caller \in {"node", "reconnect"} : DialerDestroyTimeout(n, caller)
    \/ \E n \in DOMAIN peers : DialSucceeds(n)
    \/ \E n \in DOMAIN peers : DialFails(n)
    \/ ReconnectServerDestroyed
    \/ ReconnectServerRebuilt
    \/ SessionDestroy
    \/ DestroyServerDestroyed

LifeSpec == LifeInit /\ [][LifeNext]_vars

\* The event loop runs every callback that is due; the neighbors answer
\* heartbeats while the path is up.  Breaks, restorations, heartbeat
\* timeouts, dials by neighbors and destroy() are not forced to happen.
LifeFairness ==
    /\ \A n \in {"n1", "n2"} :
          /\ WF_vars(SocketClosed(n))
          /\ WF_vars(HeartbeatReceived(n))
          /\ WF_vars(DialSucceeds(n))
          /\ WF_vars(DialFails(n))
          /\ \A caller \in {"node", "reconnect"} : WF_vars(DialerDestroyTimeout(n, caller))
    /\ WF_vars(ReconnectServerDestroyed)
    /\ WF_vars(ReconnectServerRebuilt)
    /\ WF_vars(DestroyServerDestroyed)

LifeFairSpec == LifeSpec /\ LifeFairness

(***************************************************************************)
(* The host's node right after ServerNode.start: every dialer is            *)
(* connecting, and sayHello has handed the hello of every neighbor to       *)
(* sendMessage, where it waits on the connectionPromise of the first        *)
(* dialer.  A neighbor's listener may not be reachable yet.  The            *)
(* application sends nothing else.                                          *)
(***************************************************************************)
started(nbrs) ==
    [n \in nbrs |->
        [established(nbrs)[n] EXCEPT !.conn = "connecting", !.alive = FALSE,
                                     !.timers = FALSE, !.connectionPromise = "pending",
                                     !.message = "held"]]

StartInit ==
    /\ coordIdle
    /\ meshIdle
    /\ dialIdle
    /\ portsIdle
    /\ joinIdle
    /\ \E nbrs \in NeighborSets, up \in [{"n1", "n2"} -> BOOLEAN] :
          /\ peers = started(nbrs)
          /\ controller = [created |-> TRUE, reconnecting |-> FALSE,
                           listener |-> "listening", listenerWired |-> TRUE,
                           reconnectPc |-> "idle", pending |-> {},
                           destroyPc |-> "idle", destroyCalls |-> 0, error |-> ""]
          /\ network = [up |-> [n \in nbrs |-> up[n]], broken |-> [n \in nbrs |-> FALSE],
                        breaks |-> 0, timeouts |-> 0, dials |-> 0, sends |-> 0]
          /\ heard = [n \in nbrs |-> {}]

StartNext ==
    \/ \E n \in DOMAIN peers : NetworkBreak(n)
    \/ \E n \in DOMAIN peers : NetworkRestore(n)
    \/ \E n \in DOMAIN peers : SocketClosed(n)
    \/ \E n \in DOMAIN peers : HeartbeatTimeout(n)
    \/ \E n \in DOMAIN peers : HeartbeatReceived(n)
    \/ \E n \in DOMAIN peers, port \in ClientPorts : PeerConnects(n, port)
    \/ \E n \in DOMAIN peers, caller \in {"node", "reconnect"} : DialerDestroyTimeout(n, caller)
    \/ \E n \in DOMAIN peers : DialSucceeds(n)
    \/ \E n \in DOMAIN peers : DialFails(n)
    \/ ReconnectServerDestroyed
    \/ ReconnectServerRebuilt
    \/ SessionDestroy
    \/ DestroyServerDestroyed

StartSpec == StartInit /\ [][StartNext]_vars

(***************************************************************************)
(* RebuildSpec: the reconnection of an established Node on a device where  *)
(* another process may start to listen on the Node's port while the        *)
(* Node's listener is closed for its rebuild.                              *)
(***************************************************************************)
\* Node.tcpServerPort, the port TLSServer.rebuild listens on again.
nodeListenPort == hostNodePort

\* Another process of the device binds the port the closed listener left.
ListenPortTaken ==
    /\ controller.created
    /\ controller.listener = "closed"
    /\ nodeListenPort \notin occupied
    /\ occupied' = occupied \cup {nodeListenPort}
    /\ UNCHANGED <<nonPortVars, portCall, creation>>

\* TLSServer.rebuild: server.listen succeeds, its callback resolves the
\* promise of listen and reconnect() continues.
RebuildListens ==
    /\ nodeListenPort \notin occupied
    /\ ReconnectServerRebuilt

\* TLSServer.rebuild: server.listen fails with the server's 'error'; the
\* promise of listen, which only the callback of a successful listen
\* resolves, stays pending, and so does the await in reconnect().
RebuildListenFails ==
    /\ controller.created
    /\ controller.reconnectPc = "rebuild"
    /\ nodeListenPort \in occupied
    /\ controller' = [controller EXCEPT !.reconnectPc = "listen-pending"]
    /\ UNCHANGED <<nonLifeVars, network, peers, heard>>

RebuildInit == LifeInit /\ controller.created

RebuildNext ==
    \/ \E n \in DOMAIN peers : NetworkBreak(n)
    \/ \E n \in DOMAIN peers : NetworkRestore(n)
    \/ \E n \in DOMAIN peers : SocketClosed(n)
    \/ \E n \in DOMAIN peers : HeartbeatTimeout(n)
    \/ \E n \in DOMAIN peers : HeartbeatReceived(n)
    \/ \E n \in DOMAIN peers, port \in ClientPorts : PeerConnects(n, port)
    \/ \E n \in DOMAIN peers : DialerDestroyTimeout(n, "reconnect")
    \/ \E n \in DOMAIN peers : DialSucceeds(n)
    \/ \E n \in DOMAIN peers : DialFails(n)
    \/ ReconnectServerDestroyed
    \/ ListenPortTaken
    \/ RebuildListens
    \/ RebuildListenFails

RebuildSpec == RebuildInit /\ [][RebuildNext]_vars

\* The event loop runs every callback that is due, and a listen attempt
\* ends one way or the other.  Breaks, restorations, heartbeat timeouts,
\* dials by neighbors and the other process are not forced to happen.
RebuildFairness ==
    /\ \A n \in {"n1", "n2"} :
          /\ WF_vars(SocketClosed(n))
          /\ WF_vars(HeartbeatReceived(n))
          /\ WF_vars(DialSucceeds(n))
          /\ WF_vars(DialFails(n))
          /\ WF_vars(DialerDestroyTimeout(n, "reconnect"))
    /\ WF_vars(ReconnectServerDestroyed)
    /\ WF_vars(RebuildListens)
    /\ WF_vars(RebuildListenFails)

RebuildFairSpec == RebuildSpec /\ RebuildFairness

(***************************************************************************)
(* A client joins: CoordinatorClient.start with its SRPClient, against the  *)
(* coordinator above, while other addresses send it whatever they like.    *)
(***************************************************************************)
joinUser == "u1"
joinIP == "ip1"
joinNodePort == 50001

\* srp.deriveSession on the client: the proof of the exchange and the key,
\* which is the server's key when the password is the session's passcode.
clientSession(username, password, serverEphemeralPublic) ==
    [proof |-> [pw |-> password, eph |-> serverEphemeralPublic],
     key |-> IF password = sessionPasscode
             THEN SessionKey(username, serverEphemeralPublic)
             ELSE [u |-> "mismatch", e |-> serverEphemeralPublic]]

\* srp.verifySession on the client: the server proof belongs to its session.
verifySession(session, serverSessionProof) == serverSessionProof = session.key

\* The payload of the coordinator's answer to round 1 and to round 2; an
\* error answer has none.
NullPayload == [null |-> TRUE]

handshake1Payload(r, db, username) ==
    IF r.status = "success" THEN [serverEphermalKey |-> db[username].eph] ELSE NullPayload

handshake2Payload(r, db, username) ==
    IF r.status = "success"
    THEN LET key == getSessionKey(db, username)
         IN  [serverProof |-> key,
              encrypted |-> encode64(aesEncrypt(key,
                  [userName |-> sessionName, ip |-> HostIP, port |-> hostNodePort]))]
    ELSE NullPayload

JoinInit ==
    /\ coordIdle
    /\ meshIdle
    /\ dialIdle
    /\ portsIdle
    /\ lifeIdle
    /\ \E password \in Passwords :
          join = [pc |-> "idle", password |-> password, rx |-> "null",
                  session |-> "null", result |-> "null", error |-> "null"]

\* 'tls-connected': the client sends round 1.
JoinConnected ==
    /\ join.pc = "idle"
    /\ join' = [join EXCEPT !.pc = "hs1-sent"]
    /\ UNCHANGED <<coordVars, nonJoinVars>>

\* The coordinator handles the client's round 1 and answers.
JoinServerHandshake1 ==
    /\ join.pc = "hs1-sent"
    /\ Handshake1(joinIP, joinUser)
    /\ join' = [join EXCEPT !.pc = "hs1-replied",
                            !.rx = [status |-> reply'.status, error |-> reply'.error,
                                    payload |-> handshake1Payload(reply', userDB', joinUser)]]
    /\ UNCHANGED <<failedProofs, nonJoinVars>>

\* The client's 'data' handler for the answer to round 1.
JoinClientHandshake1 ==
    /\ join.pc = "hs1-replied"
    /\ join' =
          IF join.rx.payload = NullPayload
          THEN [join EXCEPT !.pc = "pending", !.error = join.rx.error]
          ELSE [join EXCEPT !.pc = "hs2-sent",
                            !.session = clientSession(joinUser, join.password,
                                                      join.rx.payload.serverEphermalKey)]
    /\ UNCHANGED <<coordVars, nonJoinVars>>

\* The coordinator handles the client's round 2 and answers.
JoinServerHandshake2 ==
    /\ join.pc = "hs2-sent"
    /\ Handshake2(joinIP, joinUser, join.session.proof, joinNodePort)
    /\ join' = [join EXCEPT !.pc = "hs2-replied",
                            !.rx = [status |-> reply'.status, error |-> reply'.error,
                                    payload |-> handshake2Payload(reply', userDB', joinUser)]]
    /\ UNCHANGED <<failedProofs, nonJoinVars>>

\* The client's 'data' handler for the answer to round 2: the promise of
\* start resolves when the server is verified; otherwise it stays pending.
JoinClientHandshake2 ==
    /\ join.pc = "hs2-replied"
    /\ join' =
          IF join.rx.payload = NullPayload
          THEN [join EXCEPT !.pc = "pending", !.error = join.rx.error]
          ELSE IF ~verifySession(join.session, join.rx.payload.serverProof)
          THEN [join EXCEPT !.pc = "pending",
                            !.error = "Could not verify server, please try again"]
          ELSE [join EXCEPT !.pc = "resolved",
                            !.result = [info |-> aesDecrypt(join.session.key,
                                                    decode64(join.rx.payload.encrypted)).message,
                                        key |-> join.session.key]]
    /\ UNCHANGED <<coordVars, nonJoinVars>>

\* The joining client has no record in the authenticated list yet.
joinPending == \A i \in 1..Len(authenticatedClients) : authenticatedClients[i].ip # joinIP

\* What other addresses send to the coordinator; the bound of the list
\* leaves room for the joining client.
JoinNext ==
    \/ JoinConnected
    \/ JoinServerHandshake1
    \/ JoinClientHandshake1
    \/ JoinServerHandshake2
    \/ JoinClientHandshake2
    \/ \E ip \in IPs \ {joinIP}, username \in Users :
          Handshake1(ip, username) /\ UNCHANGED <<failedProofs, nonCoordVars>>
    \/ \E ip \in IPs \ {joinIP}, username \in Users, sessionProof \in Proofs, nodePort \in Ports :
          /\ Len(authenticatedClients) + (IF joinPending THEN 1 ELSE 0) < MaxAuthenticated
          /\ Handshake2(ip, username, sessionProof, nodePort)
          /\ UNCHANGED <<failedProofs, nonCoordVars>>
    \/ \E address \in IPs \ {joinIP} :
          ConnectionClosed(address) /\ UNCHANGED <<failedProofs, nonCoordVars>>

JoinSpec == JoinInit /\ [][JoinNext]_vars

\* The coordinator and the client handle every message that reached them.
JoinFairness ==
    /\ WF_vars(JoinConnected)
    /\ WF_vars(JoinServerHandshake1)
    /\ WF_vars(JoinClientHandshake1)
    /\ WF_vars(JoinServerHandshake2)
    /\ WF_vars(JoinClientHandshake2)

JoinFairSpec == JoinSpec /\ JoinFairness

(***************************************************************************)
(* The joining client by itself: its 'data' handler run on whatever the    *)
(* peer at the session's address sends.  The TLSClient checks only the     *)
(* common name of the peer's certificate, so the peer need not be the      *)
(* coordinator above.  A payload field that is absent is UndefinedKey (a   *)
(* proof) or 0 (an ephemeral).                                             *)
(***************************************************************************)
hostInfo == [userName |-> sessionName, ip |-> HostIP, port |-> hostNodePort]

\* An SRPClient that has not derived a session: clientSession is null.
noSession == [key |-> NullSession]

ReplyKeys ==
    {SessionKey(joinUser, e) : e \in 1..2} \cup {[u |-> "mismatch", e |-> 1], UndefinedKey}

ReplyPayloads ==
    {NullPayload}
    \cup {[serverEphermalKey |-> e, serverProof |-> UndefinedKey] : e \in 0..2}
    \cup {[serverEphermalKey |-> 0, serverProof |-> k,
           encrypted |-> encode64(aesEncrypt(c, hostInfo))] :
              k \in ReplyKeys \ {UndefinedKey}, c \in {SessionKey(joinUser, e) : e \in 1..2}}

Replies ==
    [type : {"srp-handshake_1", "srp-handshake_2", "undefined"},
     status : {"success", "error"},
     payload : ReplyPayloads]

\* The promise of start: resolve settles it once.
resolve(j, value) ==
    IF j.pc = "resolved" THEN j ELSE [j EXCEPT !.pc = "resolved", !.result = value]

errorEmitted(j, d) ==
    IF d.status # "success" THEN [j EXCEPT !.emits = Append(@, "error")] ELSE j

\* The 'data' handler of CoordinatorClient.start.  deriveSessionKey throws on
\* an absent ephemeral; verifySession returns false when it throws; the
\* message of a failed decryption is null, which JSON.parse returns as null.
onData(j, d) ==
    IF d.payload = NullPayload
    THEN [j EXCEPT !.emits = Append(@, "error")]
    ELSE IF d.type = "srp-handshake_1"
    THEN IF d.payload.serverEphermalKey = 0 THEN errorEmitted(j, d)
         ELSE [errorEmitted(j, d) EXCEPT
                  !.pc = IF @ = "resolved" THEN @ ELSE "hs2-sent",
                  !.session = clientSession(joinUser, j.password,
                                            d.payload.serverEphermalKey)]
    ELSE IF j.session = noSession \/ ~verifySession(j.session, d.payload.serverProof)
    THEN [errorEmitted(j, d) EXCEPT !.emits = Append(@, "error")]
    ELSE resolve([errorEmitted(j, d) EXCEPT !.emits = Append(@, "authenticated")],
                 [info |-> aesDecrypt(j.session.key, decode64(d.payload.encrypted)).message,
                  key |-> j.session.key])

\* A message of the peer reaches the handler.
ReplyArrives(d) ==
    /\ join.pc # "idle"
    /\ join.handled < MaxReplies
    /\ join' = [onData(join, d) EXCEPT !.rx = d, !.handled = @ + 1]
    /\ UNCHANGED <<coordVars, nonJoinVars>>

ReplyInit ==
    /\ coordIdle
    /\ meshIdle
    /\ dialIdle
    /\ portsIdle
    /\ lifeIdle
    /\ \E password \in Passwords :
          join = [pc |-> "idle", password |-> password, rx |-> "null",
                  session |-> noSession, result |-> "null", error |-> "null",
                  emits |-> <<>>, handled |-> 0]

ReplyNext ==
    \/ JoinConnected
    \/ \E d \in Replies : ReplyArrives(d)

ReplySpec == ReplyInit /\ [][ReplyNext]_vars

(***************************************************************************)
(* Claims about the coordinator.                                           *)
(***************************************************************************)
pinnedTo(username, ip) == username \in DOMAIN clients /\ clients[username].ip = ip
pinnedElsewhere(username, ip) == username \in DOMAIN clients /\ clients[username].ip # ip

\* C1: an srp-handshake_2 for a username that arrives from an address other
\* than the one recorded for it at srp-handshake_1 is answered with the
\* 'does not match initial IP Address' error and authenticates nobody.
C1_IPPinning ==
    [][\A ip \in IPs, username \in Users :
         pinnedElsewhere(username, ip) =>
            \A sessionProof \in Proofs, nodePort \in Ports :
               Handshake2(ip, username, sessionProof, nodePort)
                  => /\ reply'.status = "error"
                     /\ reply'.error = ErrIPMismatch
                     /\ authenticatedClients' = authenticatedClients]_vars

\* C1 witness: a round 2 with the correct proof was refused for its address.
C1_Witness ==
    /\ reply.type = "srp-handshake_2"
    /\ reply.error = ErrIPMismatch
    /\ event.name = "connection-attempt-fail"
    /\ authenticatedClients = <<>>

\* C2: once three proofs from one address have failed verification, every
\* further srp-handshake_2 from that address (for a username pinned to it) is
\* answered with the 'Too many failed authentication attempts' error and
\* authenticates nobody.
C2_LockoutAfterThreeFailedProofs ==
    [][\A ip \in IPs, username \in Users, sessionProof \in Proofs, nodePort \in Ports :
         (/\ failedProofs[ip].count >= maxSRPRetrys
          /\ pinnedTo(username, ip)
          /\ AuditHandshake2(ip, username, sessionProof, nodePort))
            => /\ reply'.error = ErrTooMany
               /\ authenticatedClients' = authenticatedClients]_vars

\* C3: failed proofs made from one address under different usernames count
\* toward the same limit of three: after three of them, made under at least
\* two usernames, every further srp-handshake_2 from that address is locked out.
C3_CeilingPerIPAcrossUsernames ==
    [][\A ip \in IPs, username \in Users, sessionProof \in Proofs, nodePort \in Ports :
         (/\ failedProofs[ip].count >= maxSRPRetrys
          /\ Cardinality(failedProofs[ip].names) >= 2
          /\ pinnedTo(username, ip)
          /\ AuditHandshake2(ip, username, sessionProof, nodePort))
            => /\ reply'.error = ErrTooMany
               /\ authenticatedClients' = authenticatedClients]_vars

\* C4: the authenticated list grows, and 'connected' is emitted, only in a
\* step that handles an srp-handshake_2 whose proof was made with the session
\* passcode and verifies, and the step appends exactly that user; an
\* srp-handshake_2 whose proof was made with a wrong passcode leaves the
\* list as it is and emits no 'connected'.
C4_AuthenticatedOnlyByVerifiedProof ==
    [][/\ \A sessionProof \in Proofs :
            sessionProof.pw # sessionPasscode =>
               \A ip \in IPs, username \in Users, nodePort \in Ports :
                  Handshake2(ip, username, sessionProof, nodePort)
                     => /\ authenticatedClients' = authenticatedClients
                        /\ event'.name # "connected"
                        /\ reply'.status = "error"
       /\ (\/ Len(authenticatedClients') > Len(authenticatedClients)
           \/ (event' # event /\ event'.name = "connected"))
             => \E ip \in IPs, username \in Users, sessionProof \in Proofs, nodePort \in Ports :
                   /\ sessionProof.pw = sessionPasscode
                   /\ proofVerifies(userDB, username, sessionProof)
                   /\ Handshake2(ip, username, sessionProof, nodePort)
                   /\ event' = Event("connected", username)
                   /\ authenticatedClients' = Append(authenticatedClients,
                          [userName |-> username, ip |-> ip, port |-> nodePort])]_vars

\* C4 witness: a user is authenticated, and another round 2 has just failed.
C4_Witness ==
    /\ Len(authenticatedClients) = 1
    /\ reply.error = ErrUnableToVerify
    /\ \E username \in DOMAIN userDB : userDB[username].serverSession # NullSession

\* C5: an srp-handshake_1 naming a username registered from another address
\* is answered with the 'already registered' error and leaves the clients
\* table, the SRP records and the authenticated list as they were.
C5_CollisionChangesNothing ==
    [][\A ip \in IPs, username \in Users :
         (pinnedElsewhere(username, ip) /\ Handshake1(ip, username))
            => /\ reply' = Reply("srp-handshake_1", "error", ErrAlreadyRegistered)
               /\ UNCHANGED <<clients, userDB, authenticatedClients>>]_vars

\* C5 witness: the collision error was sent while the prior registrant is
\* authenticated.
C5_Witness ==
    /\ reply.error = ErrAlreadyRegistered
    /\ Len(authenticatedClients) >= 1
    /\ \E username \in DOMAIN clients : clients[username].registered

\* C6: the authenticated list, and so the roster of exportUsers, holds at
\* most one record per userName.
C6_OneRecordPerUserName ==
    \A i, j \in 1..Len(exportUsers) :
        exportUsers[i].userName = exportUsers[j].userName => i = j

(***************************************************************************)
(* Claims about the mesh bootstrap.                                         *)
(***************************************************************************)
sessionStartedBy(m) == emitted'[m] # emitted[m]

\* C7: once the mesh is bootstrapped, every two distinct members A and B hold
\* entries for each other, and the key A uses to send to B is the key B uses
\* to receive from A; the equality holds as soon as both entries exist.
C7_KeySymmetry ==
    /\ \A a, b \in DOMAIN node :
          (a # b /\ hasNeighbor(a, b) /\ hasNeighbor(b, a))
             => node[a].neighbors[b].sendKey = node[b].neighbors[a].receiveKey
    /\ Bootstrapped =>
          \A a, b \in SessionMembers : a # b => hasNeighbor(a, b)

\* A session of three members is bootstrapped: two clients hold entries for each other.
C7_Witness ==
    /\ Bootstrapped
    /\ Cardinality(SessionMembers) = 3
    /\ \E a, b \in Users : a # b /\ hasNeighbor(a, b) /\ hasNeighbor(b, a)

channelEstablished(a, b) ==
    /\ a \in DOMAIN node'
    /\ b \in DOMAIN node'[a].neighbors
    /\ node'[a].neighbors[b].dialer = "connected"

\* C9: when a member emits session-started, every pair of distinct members
\* of the session has an established TLS channel.
C9_FullMeshAtSessionStarted ==
    [][\A m \in Members :
          sessionStartedBy(m) =>
             \A a, b \in SessionMembers : a # b => channelEstablished(a, b)]_vars

\* C10: the host emits session-started at most once, and only on an
\* ack-hello that completes the set of its neighbors; a repeated ack-hello
\* causes neither an early nor a second emission.
C10_SessionStartedOnce ==
    [][sessionStartedBy(sessionName) =>
          /\ emitted[sessionName] = 0
          /\ \E sender \in Users :
                node[sessionName].ackedNeighbors \cup {sender}
                   = DOMAIN node[sessionName].neighbors]_vars


\* C11: once the host has started the mesh, the host and every authenticated
\* client eventually emit session-started, whatever the size of the roster.
C11_BootstrapCompletes ==
    (sessionName \in DOMAIN node) ~> (\A m \in SessionMembers : emitted[m] >= 1)

\* The 'message' events of b whose sender is a, in order.
receivedFrom(b, a) == SelectSeq(inbox[b], LAMBDA e : e.sender = a)

\* The messages of type 'message' in a sequence of node messages.
messagesIn(q) == SelectSeq(q, LAMBDA msg : msg.type = "message")

\* C12: on an established mesh every sendMessage(m, B) by A leads to exactly
\* one 'message' event at B: each text given to sendMessage is waiting on
\* the connectionPromise, in flight, or has been emitted once; and when B
\* handles the message the event carries sender A and the text m.
C12_MessageDeliveredOnce ==
    /\ [](\A a, b \in Members :
            Len(outbox[<<a, b>>]) = Len(receivedFrom(b, a)) + Len(messagesIn(wire[<<a, b>>]))
                + (IF hasNeighbor(a, b) THEN Len(messagesIn(node[a].neighbors[b].queued)) ELSE 0))
    /\ [][\A a, b \in Members :
            HandleMessage(b, <<a, b>>) =>
               inbox'[b] = Append(inbox[b],
                  [sender |-> a,
                   text |-> outbox[<<a, b>>][Len(receivedFrom(b, a)) + 1]])]_vars

\* A client has received a message from another client.
C12_Witness ==
    \E a, b \in Users :
        /\ a # b
        /\ receivedFrom(b, a) # <<>>
        /\ receivedFrom(b, a)[1].text = outbox[<<a, b>>][1]

\* C13: a dialer configured with session name S that dialed port P accepts
\* the peer certificate, and emits tls-connected, only if the common name is
\* exactly the string S:P.
C13_CertificatePinning ==
    tlsDial.state \in {"verified", "tls-connected"}
       => tlsDial.cn = commonName(tlsDial.sessionName, tlsDial.remotePort)

\* C16: a port returned by getTCPOpenPort is one on which the later listen of
\* the session succeeds: no server of the session finds its port in use.
C16_ListenSucceeds == creation.pc # "none" => creation.listenError = {}

\* The ports the helper is to probe, in order: from the start value up to the
\* ceiling, then from start - 1 down to the floor.
probeOrder(startFrom) ==
    [k \in 1..(IF startFrom <= maxPort THEN maxPort - startFrom + 1 ELSE 0) |-> startFrom + k - 1]
       \o [k \in 1..(IF startFrom > minPort THEN startFrom - minPort ELSE 0) |-> startFrom - k]

\* C17: getTCPOpenPort returns the first free port found when probing upward
\* from the start value to the ceiling and then downward from start - 1 to the
\* floor; it fails with 'Could not secure a port' exactly when every port it
\* probed in both directions was occupied.
C17_FirstFreePort ==
    [][ReturnPort =>
          LET log == portCall.probed
              order == probeOrder(portCall.startFrom)
              found == \E k \in 1..Len(log) : log[k].available
          IN  /\ Len(log) <= Len(order)
              /\ \A k \in 1..Len(log) : log[k].port = order[k]
              /\ \A k \in 1..(Len(log) - 1) : ~log[k].available
              /\ found => /\ creation'[creation.pc] = log[Len(log)].port
                          /\ creation'.pc # "rejected"
              /\ ~found => /\ Len(log) = Len(order)
                           /\ creation'.pc = "rejected"
                           /\ creation'.error = siteError(creation.pc)]_vars

\* A call that found its port in the downward loop is about to return.
C17_Witness ==
    /\ portCall.phase = "return"
    /\ portCall.openPort # 0
    /\ portCall.openPort < portCall.startFrom

\* C20: the application messages A sends to B over one channel are delivered
\* in the order of the sendMessage calls: the texts B has emitted for sender A
\* are the first texts A gave to sendMessage for B, in the same order.
C20_DeliveredInSendOrder ==
    \A a, b \in Members :
        /\ Len(receivedFrom(b, a)) <= Len(outbox[<<a, b>>])
        /\ \A k \in 1..Len(receivedFrom(b, a)) :
              receivedFrom(b, a)[k].text = outbox[<<a, b>>][k]

\* A member has received two different texts from one sender.
C20_Witness ==
    \E a, b \in Members :
        /\ Len(receivedFrom(b, a)) = 2
        /\ receivedFrom(b, a)[1].text # receivedFrom(b, a)[2].text

\* C14: when the TCP connection to a neighbor has broken and the network
\* is restored, the node eventually emits 'reconnected' for that neighbor and
\* has a connected channel to it again, on which later messages are sent.
\* (A node that is being destroyed is exempt.)
C14_ReconnectedAfterRestore ==
    \A n \in {"n1", "n2"} :
        (/\ n \in DOMAIN peers
         /\ network.broken[n] /\ network.up[n]
         /\ controller.destroyCalls = 0)
        ~> (\/ /\ n \in DOMAIN peers
                /\ "reconnected" \in heard[n]
                /\ peers[n].conn = "connected"
            \/ controller.destroyCalls > 0)

\* C18: after destroy() has completed the node stays torn down: no heartbeat
\* timer is pending, the listener does not listen (again), and no dialer is
\* open or dialing (again).
C18_StaysTornDown ==
    (controller.created /\ controller.destroyPc = "done") =>
        /\ controller.listener # "listening"
        /\ \A n \in DOMAIN peers :
              /\ peers[n].conn \notin {"connecting", "connected"}
              /\ ~peers[n].timers

\* C19: destroy() completes without error, also on a session whose mesh node
\* was never created, and also when it is called a second time.
C19_DestroyIdempotent == controller.destroyCalls > 0 => controller.error = ""

\* The records of the joining client in what the host exports.
joinRecords == SelectSeq(exportUsers, LAMBDA r : r.userName = joinUser)

\* C15: a client that runs both rounds with the session's passcode (its
\* round 1 was accepted) eventually has its start promise resolved, and when
\* it resolves the host's authenticated list holds exactly one record for the
\* client, whose session key is the key the promise resolved with.
C15_JoinResolves ==
    /\ (/\ join.pc = "hs2-sent"
        /\ join.password = sessionPasscode) ~> (join.pc = "resolved")
    /\ [][(JoinClientHandshake2 /\ join'.pc = "resolved") =>
             /\ Len(joinRecords) = 1
             /\ joinRecords[1].serverSessionKey = join'.result.key
             /\ joinRecords[1].ip = joinIP]_vars

\* The client's promise has resolved while another client is authenticated.
C15_Witness ==
    /\ join.pc = "resolved"
    /\ join.result.key = SessionKey(joinUser, 1)
    /\ Len(authenticatedClients) = 2

\* A rebuild of the dialer of n by reconnect_user is in flight: the dialer is
\* being destroyed for it, or the rebuilt dialer is connecting.
rebuildInFlight(n) ==
    \/ "reconnect" \in (peers[n].destroying \cup peers[n].awaiting)
    \/ peers[n].conn = "connecting"

\* C21: while a rebuild of a neighbor's dialer is in flight the neighbor's
\* rebuildingSocket flag stays set, so that no other call of reconnect_user
\* destroys or rebuilds that dialer before the rebuild has finished.
C21_OneRebuildPerNeighbor ==
    \A n \in DOMAIN peers : rebuildInFlight(n) => peers[n].rebuildingSocket

\* A step in which an event handler of the Node may call reconnect(): a
\* dialer's socket closes, or its heartbeat times out.
reconnectTrigger ==
    \E n \in DOMAIN peers :
        \/ SocketClosed(n)
        \/ HeartbeatTimeout(n)
        \/ DialFails(n)
        \/ \E caller \in {"node", "reconnect"} : DialerDestroyTimeout(n, caller)

\* C22: at most one full reconnect runs at a time.  The reconnecting flag is
\* set for as long as reconnect() runs, and a trigger that arrives while it
\* is set neither destroys or rebuilds the listener, nor restarts the
\* reconnect, nor starts a per-peer reconnect.
C22_OneFullReconnect ==
    /\ [](controller.created /\ controller.reconnectPc # "idle" => controller.reconnecting)
    /\ [][(controller.reconnecting /\ reconnectTrigger) =>
             /\ controller'.listener = controller.listener
             /\ controller'.listenerWired = controller.listenerWired
             /\ controller'.reconnectPc \in {controller.reconnectPc, "idle"}
             /\ \A n \in DOMAIN peers :
                   /\ peers'[n].rebuildingSocket => peers[n].rebuildingSocket
                   /\ "reconnect" \in peers'[n].destroying
                         => "reconnect" \in peers[n].destroying]_vars

\* While reconnect() waits for the dial of one neighbor, the dial of another
\* has failed and its socket has closed with every neighbor disconnected:
\* the socket-closed handler has called reconnect() with the flag set.
C22_Witness ==
    /\ controller.reconnecting
    /\ controller.reconnectPc = "users"
    /\ \A x \in DOMAIN peers : peers[x].disconnected
    /\ \E n \in DOMAIN peers :
          /\ peers[n].conn = "closed"
          /\ peers[n].dialFor = "all"
          /\ n \notin controller.pending

\* C23: when the listener accepts a connection from a neighbor's address
\* whose remote port differs from the recorded one, the node records the new
\* port, marks the neighbor disconnected and runs reconnect_user, which
\* starts to destroy the neighbor's dialer in order to rebuild it.
C23_NewPortRebuildsDialer ==
    [][\A n \in DOMAIN peers, port \in ClientPorts :
          (PeerConnects(n, port) /\ peers[n].clientPort # port) =>
              /\ peers'[n].clientPort = port
              /\ peers'[n].disconnected
              /\ "reconnect" \in peers'[n].destroying]_vars

\* C24: a message given to sendMessage is handed to the neighbor's dialer
\* only while that dialer is connected; a message submitted while it is not
\* is held until the channel is established again: it is neither written to
\* a closed channel nor left waiting on a promise that cannot resolve.
C24_SentOnlyWhenConnected ==
    \A n \in DOMAIN peers : peers[n].message \notin {"sent-closed", "orphaned"}

\* C25: once the host has called startP2PSession the coordinator is stopped:
\* no srp-handshake message is processed and no member is added to the
\* authenticated list after the roster has been exported for the mesh.
C25_CoordinatorStoppedAtMeshStart ==
    [][(sessionName \in DOMAIN node) =>
          (/\ authenticatedClients' = authenticatedClients
           /\ clients' = clients
           /\ userDB' = userDB)]_vars

\* C26: every row of exportUsers carries a defined session key, the key of
\* the SRP session of the round 2 that authenticated the user, whatever
\* handshake messages have been processed since.
C26_ExportedKeysDefined ==
    \A i \in 1..Len(exportUsers) :
        /\ exportUsers[i].serverSessionKey \notin {UndefinedKey, NullSession}
        /\ \E eph \in Ephemerals :
              exportUsers[i].serverSessionKey = SessionKey(exportUsers[i].userName, eph)

\* The keys a node holds: the sendKey and the receiveKey of every neighbor.
keysHeld(c) ==
    {node[c].neighbors[x].sendKey : x \in DOMAIN node[c].neighbors}
        \cup {node[c].neighbors[x].receiveKey : x \in DOMAIN node[c].neighbors}

\* C27: mesh keys are per pair: for distinct members A, B and C the key that
\* protects the messages from A to B is not among the keys C holds.
C27_PairwiseKeys ==
    \A a, b, c \in DOMAIN node :
        (/\ a # b /\ a # c /\ b # c
         /\ hasNeighbor(a, b)
         /\ node[a].neighbors[b].sendKey # UndefinedKey)
            => node[a].neighbors[b].sendKey \notin keysHeld(c)

\* C29: a client node emits session-started at most once, and only after a
\* TLS handshake of the host's dialer has completed on the client's
\* listener; a connection that is only accepted does not cause it.
C29_ClientSessionStarted ==
    \A c \in Users :
        /\ emitted[c] <= 1
        /\ emitted[c] > 0 =>
              /\ hasNeighbor(sessionName, c)
              /\ node[sessionName].neighbors[c].dialer = "connected"

\* C30: a hello, ack-hello or application message whose sender name the
\* receiving node does not know, or that comes from another address than the
\* one pinned for the sender, is dropped silently: the handler only consumes
\* it; no neighbor is added or changed, no ack is counted, nothing is sent
\* and no event is emitted.
C30_UnknownSenderDropped ==
    [][/\ \A b \in Members, ch \in Members \X Members :
             (/\ b \in DOMAIN node
              /\ wire[ch] # <<>>
              /\ rejects(b, Head(wire[ch]))
              /\ \/ ClientHandleHello(b, ch)
                 \/ (b = sessionName /\ ServerReceiveAckHello(ch))
                 \/ HandleMessage(b, ch)
                 \/ HandleOther(b, ch))
                => /\ node' = node
                   /\ emitted' = emitted
                   /\ inbox' = inbox
                   /\ wire' = [wire EXCEPT ![ch] = Tail(@)]
       /\ \A sender \in Users, remoteAddress \in IPs :
             (/\ ServerReceiveRepeatedAckHello(sender, remoteAddress)
              /\ rejects(sessionName, [from |-> sender, fromIP |-> remoteAddress]))
                => UNCHANGED <<node, emitted, inbox, wire>>]_vars

\* A node that has processed its hello has a message at its listener whose
\* sender it knows, encrypted under the key it decrypts with, from another
\* address than the pinned one.
C30_Witness ==
    \E b \in DOMAIN node :
        /\ node[b].helloHandled
        /\ wire[<<b, b>>] # <<>>
        /\ Head(wire[<<b, b>>]).type = "message"
        /\ Head(wire[<<b, b>>]).from \in DOMAIN node[b].neighbors
        /\ rejects(b, Head(wire[<<b, b>>]))

\* C28: on a keep-alive channel 'disconnected' is emitted only while the
\* channel is alive and makes it soft-disconnected, 'reconnected' only while
\* it is soft-disconnected, by the heartbeat callback run on the payload of
\* the last challenge sent, and makes it alive; so the events emitted are
\* 'disconnected', 'reconnected', 'disconnected', ... in turn; a heartbeat
\* with any other payload leaves the flag, the challenge, both timers and the
\* promise as they were.
C28_KeepAliveAlternates ==
    /\ [](\A i \in 1..Len(tlsDial.emits) :
             tlsDial.emits[i] = IF i % 2 = 1 THEN "disconnected" ELSE "reconnected")
    /\ [][(tlsDial'.emits # tlsDial.emits) =>
             (\/ /\ tlsDial'.emits = Append(tlsDial.emits, "disconnected")
                 /\ tlsDial.alive
                 /\ ~tlsDial'.alive
              \/ /\ tlsDial'.emits = Append(tlsDial.emits, "reconnected")
                 /\ ~tlsDial.alive
                 /\ tlsDial'.alive
                 /\ HeartbeatArrives(tlsDial.heartbeatStr))]_vars
    /\ [][\A payload \in Challenges :
             (HeartbeatArrives(payload) /\ payload # tlsDial.heartbeatStr) =>
                 (tlsDial' = tlsDial)]_vars

\* The channel went down, came back and went down again.
C28_Witness ==
    /\ tlsDial.state = "tls-connected"
    /\ Len(tlsDial.emits) >= 3
    /\ ~tlsDial.alive

\* C31: the client emits 'authenticated' and resolves start only on a
\* round-2 reply of status success whose server proof verifies against its
\* own session, with the payload decrypted under that session's key; no
\* reply of status error or with a proof that does not verify resolves it.
C31_ResolvedOnlyOnVerifiedSuccess ==
    [][\A d \in Replies :
          (/\ ReplyArrives(d)
           /\ \/ join'.pc = "resolved" /\ join.pc # "resolved"
              \/ Len(join'.emits) > Len(join.emits) /\ join'.emits[Len(join'.emits)] = "authenticated") =>
             (/\ d.type # "srp-handshake_1"
              /\ d.status = "success"
              /\ join.session # noSession
              /\ verifySession(join.session, d.payload.serverProof)
              /\ join'.result.key = join.session.key
              /\ join'.result.info =
                    aesDecrypt(join.session.key, decode64(d.payload.encrypted)).message)]_vars

\* C32: a handshake message that the coordinator answers with an error
\* (collision, address mismatch, lockout, failed proof) leaves the clients
\* table, the SRP records and the authenticated list as they were; and
\* whatever was refused before, a round 1 under a free username is accepted,
\* and a round 2 from the pinned address of its username, below the ceiling
\* of its address and with a proof that verifies, authenticates that user.
C32_ErrorsAreLocal ==
    [][/\ \A ip \in IPs, username \in Users :
            /\ (Handshake1(ip, username) /\ reply'.status = "error")
                  => UNCHANGED <<clients, userDB, authenticatedClients>>
            /\ (Handshake1(ip, username) /\ username \notin DOMAIN clients)
                  => (/\ reply' = Reply("srp-handshake_1", "success", NoError)
                      /\ clients'[username].ip = ip)
       /\ \A ip \in IPs, username \in Users, sessionProof \in Proofs, nodePort \in Ports :
            /\ (Handshake2(ip, username, sessionProof, nodePort) /\ reply'.status = "error")
                  => UNCHANGED <<clients, userDB, authenticatedClients>>
            /\ (/\ Handshake2(ip, username, sessionProof, nodePort)
                /\ pinnedTo(username, ip)
                /\ retryCountForIP(clients, ip) < maxSRPRetrys
                /\ proofVerifies(userDB, username, sessionProof))
                  => (/\ reply' = Reply("srp-handshake_2", "success", NoError)
                      /\ authenticatedClients' = Append(authenticatedClients,
                             [userName |-> username, ip |-> ip, port |-> nodePort]))]_vars

\* The lockout error has just been sent to one address while a user of the
\* other address, who never retried, is authenticated with its session.
C32_Witness ==
    /\ reply = Reply("srp-handshake_2", "error", ErrTooMany)
    /\ event.name = "connection-attempt-fail"
    /\ \E i \in 1..Len(authenticatedClients) :
          /\ authenticatedClients[i].userName # event.user
          /\ retryCountForIP(clients, authenticatedClients[i].ip) = 0
          /\ userDB[authenticatedClients[i].userName].serverSession # NullSession

C34_ReturnedPortInRange ==
    \A site \in seqToSet(callSites) :
        creation[site] # 0 => creation[site] \in minPort..maxPort

\* C35: a neighbor of the host whose connection is established, by the
\* first dial or by a dial of the reconnect path after the first one failed,
\* has been sent the hello that was queued for it at start.
C35_HelloSentOnceConnected ==
    \A n \in DOMAIN peers :
        (/\ peers[n].conn = "connected"
         /\ peers[n].wired
         /\ peers[n].connectionPromise = "resolved") => peers[n].message = "sent"

\* C36: no client is authenticated and then left out of the mesh: while the
\* host's node exists, every member of the coordinator's authenticated list
\* (a client whose round 2 was answered with success) is a neighbor of the
\* host's node, the set the hello is sent to.
C36_AuthenticatedInMesh ==
    (sessionName \in DOMAIN node) =>
        \A i \in 1..Len(authenticatedClients) :
            authenticatedClients[i].userName \in DOMAIN node[sessionName].neighbors

\* C37: when the coordinator connection of an authenticated client closes,
\* only that client's record leaves the authenticated list: the list gets
\* shorter and every record of another user, clients at the same address
\* included, stays in it.
C37_OnlyClosedClientRemoved ==
    [][\A address \in IPs :
          ConnectionClosed(address) =>
              (/\ Len(authenticatedClients') < Len(authenticatedClients)
               /\ \A i \in 1..Len(authenticatedClients) :
                     authenticatedClients[i].userName # event'.user =>
                        authenticatedClients[i] \in seqToSet(authenticatedClients'))]_vars

\* C38: for each event the coordinator emits, the Host facade emits the
\* corresponding facade event exactly once: one 'coordinator-connected' for
\* one 'connected', and likewise for the other coordinator events.
C38_FacadeEmitsOnce ==
    Len(heard.facade) = Len(heard.coordinator)

\* C39: every call of the coordinator client's start settles: once the
\* client has handled the coordinator's last answer, so that no message of
\* the handshake is in flight or waiting to be handled, the promise is
\* resolved (success) or rejected (error status or failed server proof).
C39_StartSettles ==
    (join.pc \notin {"idle", "hs1-sent", "hs1-replied", "hs2-sent", "hs2-replied"})
        => join.pc \in {"resolved", "rejected"}

\* C40: every full reconnect finishes: once the reconnecting flag is true it
\* is eventually false again, whatever the outcome of the listener's rebuild
\* and of each neighbor's dial.
C40_ReconnectFinishes ==
    controller.reconnecting ~> ~controller.reconnecting

====
